---- MODULE Spec2Model ----
(***************************************************************************)
(* Hybrid retrieval core of app/rag/hybrid_retriever.py: HybridRetriever   *)
(* and AdvancedHybridRetriever, as a state machine over one retriever      *)
(* instance and its two backends (a vector index and a BM25 index).        *)
(*                                                                         *)
(* Numbers.  Python floats are modelled by exact rationals <<n, d>> with   *)
(* d > 0 in lowest terms, so 0.7 is <<7, 10>> and 1e-6 is <<1, 1000000>>.  *)
(* Text.  A str is a sequence of one-character strings; a CJK character is *)
(* written as its pinyin syllable ("gu", "piao" for the two characters of  *)
(* the first synonym-table key).                                           *)
(***************************************************************************)
EXTENDS Integers, Sequences, FiniteSets, TLC

(***************************************************************************)
(* Bounds of the exploration.                                              *)
(***************************************************************************)
\* longest result list a backend returns for one query
MaxHits == 3
\* largest k a retriever is constructed with (the smallest is -1)
MaxK == 2

(***************************************************************************)
(* Exact rational arithmetic.                                              *)
(***************************************************************************)
RECURSIVE Gcd(_, _)
Gcd(a, b) == IF b = 0 THEN a ELSE Gcd(b, a % b)

Abs(x) == IF x < 0 THEN 0 - x ELSE x

Min(a, b) == IF a < b THEN a ELSE b

Max(a, b) == IF a < b THEN b ELSE a

\* the rational n/d (d > 0) in lowest terms
Rat(n, d) ==
    LET g == Gcd(Abs(n), d)
    IN  <<n \div g, d \div g>>

Zero == <<0, 1>>

One == <<1, 1>>

RAdd(a, b) ==
    LET g == Gcd(a[2], b[2])
    IN  Rat(a[1] * (b[2] \div g) + b[1] * (a[2] \div g), (a[2] \div g) * b[2])

RNeg(a) == <<0 - a[1], a[2]>>

RSub(a, b) == RAdd(a, RNeg(b))

RAbs(a) == <<Abs(a[1]), a[2]>>

RMul(a, b) ==
    LET g1 == Gcd(Abs(a[1]), b[2])
        g2 == Gcd(Abs(b[1]), a[2])
    IN  Rat((a[1] \div g1) * (b[1] \div g2), (a[2] \div g2) * (b[2] \div g1))

\* a / b for b # 0 (the callers model ZeroDivisionError themselves)
RDiv(a, b) ==
    IF b[1] > 0 THEN RMul(a, <<b[2], b[1]>>)
                ELSE RMul(a, <<0 - b[2], 0 - b[1]>>)

RLess(a, b) ==
    LET g == Gcd(a[2], b[2])
    IN  a[1] * (b[2] \div g) < b[1] * (a[2] \div g)

RLeq(a, b) == a = b \/ RLess(a, b)

(***************************************************************************)
(* Sequences.                                                              *)
(***************************************************************************)
\* s[:n] of Python, for any integer n (a negative n drops the last -n items)
Slice(s, n) ==
    IF n >= 0 THEN SubSeq(s, 1, Min(n, Len(s)))
              ELSE SubSeq(s, 1, Max(Len(s) + n, 0))

\* all sequences over S of length at most n
SeqsUpTo(S, n) == UNION {[1..m -> S] : m \in 0..n}

Range(s) == {s[i] : i \in DOMAIN s}

\* n copies of the character c
Repeat(c, n) == [i \in 1..n |-> c]

(***************************************************************************)
(* Documents and document identity.                                        *)
(***************************************************************************)
\* langchain_core.documents.Document
Document(content, meta) == [page_content |-> content, metadata |-> meta]

\* the slice length of _get_doc_id
PrefixLen == 100

\* Python's hash() of a str: equal strings hash equal; distinct strings are
\* taken to hash differently (64-bit collisions are left out)
Hash(s) == <<"hash", s>>

\* HybridRetriever._get_doc_id
_get_doc_id(doc) == Hash(Slice(doc.page_content, PrefixLen))

(***************************************************************************)
(* HybridRetriever._combine_results.                                       *)
(* doc_scores is the dict of the code, kept as the sequence of its items   *)
(* in insertion order (a Python dict iterates in insertion order, and      *)
(* assigning to an existing key keeps the key's position).                 *)
(***************************************************************************)
DictIndex(d, key) ==
    IF \E i \in DOMAIN d : d[i].doc_id = key
    THEN CHOOSE i \in DOMAIN d : d[i].doc_id = key
    ELSE 0

\* doc_scores[key] = value
DictPut(d, key, value) ==
    LET i == DictIndex(d, key)
        item == [doc_id |-> key] @@ value
    IN  IF i = 0 THEN Append(d, item) ELSE [d EXCEPT ![i] = item]

\* normalized_score = 1.0 / (1.0 + score)
NormalizedScore(score) == RDiv(One, RAdd(One, score))

\* RankScore with the position counted from 1
RankScoreFromOne(i) == Rat(1, i + 2)

\* bm25_score = 1.0 / (i + 1), i the 0-based position
RankScore(i) == Rat(1, i + 1)

\* VectorPass with 'bm25_score': normalized_score in place of 0.0
RECURSIVE VectorPassCopiesScore(_, _, _)
VectorPassCopiesScore(vector_docs, n, d) ==
    IF n > Len(vector_docs) THEN d
    ELSE LET hit == vector_docs[n]
         IN  VectorPassCopiesScore(vector_docs, n + 1,
                 DictPut(d, _get_doc_id(hit.doc),
                     [doc |-> hit.doc,
                      vector_score |-> NormalizedScore(hit.score),
                      bm25_score |-> NormalizedScore(hit.score)]))

\* the first loop: every vector hit (re)assigns its identity's entry
RECURSIVE VectorPass(_, _, _)
VectorPass(vector_docs, n, d) ==
    IF n > Len(vector_docs) THEN d
    ELSE LET hit == vector_docs[n]
         IN  VectorPass(vector_docs, n + 1,
                 DictPut(d, _get_doc_id(hit.doc),
                     [doc |-> hit.doc,
                      vector_score |-> NormalizedScore(hit.score),
                      bm25_score |-> Zero]))

\* the second loop: a known identity gets its bm25_score overwritten, a new
\* one gets an entry with vector_score 0
RECURSIVE Bm25Pass(_, _, _)
Bm25Pass(bm25_docs, n, d) ==
    IF n > Len(bm25_docs) THEN d
    ELSE LET doc == bm25_docs[n]
             doc_id == _get_doc_id(doc)
             bm25_score == RankScore(n - 1)
             i == DictIndex(d, doc_id)
         IN  Bm25Pass(bm25_docs, n + 1,
                 IF i # 0
                 THEN [d EXCEPT ![i].bm25_score = bm25_score]
                 ELSE Append(d, [doc_id |-> doc_id, doc |-> doc,
                                 vector_score |-> Zero,
                                 bm25_score |-> bm25_score]))

doc_scores(vector_docs, bm25_docs) ==
    Bm25Pass(bm25_docs, 1, VectorPass(vector_docs, 1, <<>>))

\* combined_score of one dict entry
CombinedScore(self, scores) ==
    RAdd(RMul(self.vector_weight, scores.vector_score),
         RMul(self.bm25_weight, scores.bm25_score))

\* InsertDescending without reverse=True: ascending
InsertAscending(sorted, item) ==
    LET behind == {i \in DOMAIN sorted : ~RLess(item.score, sorted[i].score)}
        p == IF behind = {} THEN 0
             ELSE CHOOSE i \in behind : \A j \in behind : j <= i
    IN  SubSeq(sorted, 1, p) \o <<item>> \o SubSeq(sorted, p + 1, Len(sorted))

\* list.sort(key=lambda x: x[1], reverse=True): descending by score and
\* stable, so equal scores keep their order.  An insertion sort that puts
\* each item behind every item whose score is not smaller.
InsertDescending(sorted, item) ==
    LET behind == {i \in DOMAIN sorted : ~RLess(sorted[i].score, item.score)}
        p == IF behind = {} THEN 0
             ELSE CHOOSE i \in behind : \A j \in behind : j <= i
    IN  SubSeq(sorted, 1, p) \o <<item>> \o SubSeq(sorted, p + 1, Len(sorted))

RECURSIVE SortDescending(_, _, _)
SortDescending(items, n, sorted) ==
    IF n > Len(items) THEN sorted
    ELSE SortDescending(items, n + 1, InsertDescending(sorted, items[n]))

\* scored_docs after the sort: (doc, combined_score) pairs
scored_docs(self, vector_docs, bm25_docs) ==
    LET d == doc_scores(vector_docs, bm25_docs)
        pairs == [i \in DOMAIN d |->
                     [doc |-> d[i].doc, score |-> CombinedScore(self, d[i])]]
    IN  SortDescending(pairs, 1, <<>>)

_combine_results(self, vector_docs, bm25_docs) ==
    LET s == scored_docs(self, vector_docs, bm25_docs)
    IN  [i \in DOMAIN s |-> s[i].doc]

(***************************************************************************)
(* Text operations of Python used by the advanced retriever.               *)
(***************************************************************************)
\* characters that \w of the re module does not match
NonWordChars == {" ", ",", ".", "?"}

IsWordChar(c) == c \notin NonWordChars

\* str.lower() on the cased characters that occur in the model's texts
Lower(s) ==
    [i \in DOMAIN s |-> IF s[i] = "A" THEN "a" ELSE IF s[i] = "B" THEN "b" ELSE s[i]]

\* whether sub occurs in s at position i (1-based)
OccursAt(s, sub, i) ==
    /\ i + Len(sub) - 1 <= Len(s)
    /\ \A j \in 1..Len(sub) : s[i + j - 1] = sub[j]

\* sub in s
Contains(s, sub) == \E i \in 1..(Len(s) + 1) : OccursAt(s, sub, i)

\* the first position >= i where sub occurs in s, 0 if there is none
NextOccurrence(s, sub, i) ==
    LET at == {j \in i..Len(s) : OccursAt(s, sub, j)}
    IN  IF at = {} THEN 0 ELSE CHOOSE j \in at : \A m \in at : j <= m

\* s.replace(old, new) for a non-empty old: every non-overlapping
\* occurrence, left to right
RECURSIVE ReplaceFrom(_, _, _, _)
ReplaceFrom(s, old, new, i) ==
    LET p == NextOccurrence(s, old, i)
    IN  IF p = 0 THEN SubSeq(s, i, Len(s))
        ELSE SubSeq(s, i, p - 1) \o new \o ReplaceFrom(s, old, new, p + Len(old))

Replace(s, old, new) == ReplaceFrom(s, old, new, 1)

\* s.count(sub) for a non-empty sub: non-overlapping occurrences
RECURSIVE CountFrom(_, _, _)
CountFrom(s, sub, i) ==
    LET p == NextOccurrence(s, sub, i)
    IN  IF p = 0 THEN 0 ELSE 1 + CountFrom(s, sub, p + Len(sub))

Count(s, sub) == CountFrom(s, sub, 1)

\* set(re.findall(r'\w+', s)): the maximal runs of word characters
FindWords(s) ==
    LET starts == {i \in DOMAIN s :
                      IsWordChar(s[i]) /\ (i = 1 \/ ~IsWordChar(s[i - 1]))}
        ends == {j \in DOMAIN s :
                      IsWordChar(s[j]) /\ (j = Len(s) \/ ~IsWordChar(s[j + 1]))}
        EndOf(i) == CHOOSE j \in ends : j >= i /\ \A m \in ends : m >= i => j <= m
    IN  {SubSeq(s, i, EndOf(i)) : i \in starts}

TermSet(s) == FindWords(Lower(s))

(***************************************************************************)
(* AdvancedHybridRetriever._expand_query.                                  *)
(***************************************************************************)
\* synonyms with its first entry only
synonymsFirstEntryOnly ==
    << [original |-> <<"gu", "piao">>,
        syns |-> << <<"gu", "jia">>, <<"gu", "fen">>,
                    <<"zheng", "quan">>, <<"tou", "zi">> >>] >>

\* the synonyms dict, in its literal (= iteration) order
synonyms ==
    << [original |-> <<"gu", "piao">>,
        syns |-> << <<"gu", "jia">>, <<"gu", "fen">>,
                    <<"zheng", "quan">>, <<"tou", "zi">> >>],
       [original |-> <<"gong", "si">>,
        syns |-> << <<"qi", "ye">>, <<"ji1", "gou">>, <<"zu", "zhi">> >>],
       [original |-> <<"biao", "xian">>,
        syns |-> << <<"ye", "ji4">>, <<"cheng", "ji4">>,
                    <<"jie", "guo">>, <<"qing", "kuang">> >>] >>

\* ExpandSyns taking the synonyms of an entry from the last to the first
RECURSIVE ExpandSynsBackwards(_, _, _, _, _)
ExpandSynsBackwards(query, original, syns, n, expansions) ==
    IF n > Len(syns) THEN expansions
    ELSE LET expanded == Replace(query, original, syns[Len(syns) + 1 - n])
         IN  ExpandSynsBackwards(query, original, syns, n + 1,
                 IF expanded \notin Range(expansions)
                 THEN Append(expansions, expanded)
                 ELSE expansions)

\* the inner loop over one entry's synonyms
RECURSIVE ExpandSyns(_, _, _, _, _)
ExpandSyns(query, original, syns, n, expansions) ==
    IF n > Len(syns) THEN expansions
    ELSE LET expanded == Replace(query, original, syns[n])
         IN  ExpandSyns(query, original, syns, n + 1,
                 IF expanded \notin Range(expansions)
                 THEN Append(expansions, expanded)
                 ELSE expansions)

\* the outer loop over the table
RECURSIVE ExpandEntries(_, _, _)
ExpandEntries(query, n, expansions) ==
    IF n > Len(synonyms) THEN expansions
    ELSE ExpandEntries(query, n + 1,
             IF Contains(query, synonyms[n].original)
             THEN ExpandSyns(query, synonyms[n].original, synonyms[n].syns,
                             1, expansions)
             ELSE expansions)

_expand_query(query) == ExpandEntries(query, 1, <<query>>)

(***************************************************************************)
(* AdvancedHybridRetriever._deduplicate_docs.                              *)
(***************************************************************************)
\* DedupFrom without the test of seen
RECURSIVE DedupFromKeepsAll(_, _, _, _)
DedupFromKeepsAll(docs, n, seen, unique_docs) ==
    IF n > Len(docs) THEN unique_docs
    ELSE DedupFromKeepsAll(docs, n + 1, seen, Append(unique_docs, docs[n]))

RECURSIVE DedupFrom(_, _, _, _)
DedupFrom(docs, n, seen, unique_docs) ==
    IF n > Len(docs) THEN unique_docs
    ELSE LET doc_id == _get_doc_id(docs[n])
         IN  IF doc_id \notin seen
             THEN DedupFrom(docs, n + 1, seen \cup {doc_id},
                            Append(unique_docs, docs[n]))
             ELSE DedupFrom(docs, n + 1, seen, unique_docs)

_deduplicate_docs(docs) == DedupFrom(docs, 1, {}, <<>>)

(***************************************************************************)
(* AdvancedHybridRetriever._rerank_documents.                              *)
(***************************************************************************)
RECURSIVE SumCounts(_, _)
SumCounts(doc_text, terms) ==
    IF terms = {} THEN 0
    ELSE LET t == CHOOSE x \in terms : TRUE
         IN  Count(doc_text, t) + SumCounts(doc_text, terms \ {t})

\* the nested function: [raised |-> TRUE] for the ZeroDivisionError of
\* ... / len(doc_text), else the score
calculate_relevance_score(query_terms, doc) ==
    LET doc_terms == TermSet(doc.page_content)
        overlap == Cardinality(query_terms \cap doc_terms)
        total_terms == Cardinality(query_terms \cup doc_terms)
        doc_text == Lower(doc.page_content)
    IN  IF total_terms = 0 THEN [raised |-> FALSE, score |-> Zero]
        ELSE IF Len(doc_text) = 0 THEN [raised |-> TRUE, score |-> Zero]
        ELSE LET jaccard_sim == Rat(overlap, total_terms)
                 term_density == Rat(SumCounts(doc_text, query_terms),
                                     Len(doc_text))
             IN  [raised |-> FALSE,
                  score |-> RAdd(RMul(<<7, 10>>, jaccard_sim),
                                 RMul(<<3, 10>>, term_density))]

\* _rerank_documents without the sort: the order of the fusion stays
_rerank_documentsKeepsOrder(docs, query) == [raised |-> FALSE, docs |-> docs]

\* [raised |-> TRUE] when scoring some document raises, else the documents
\* in descending, stable order of their scores
_rerank_documents(docs, query) ==
    LET query_terms == TermSet(query)
        scores == [i \in DOMAIN docs |->
                      calculate_relevance_score(query_terms, docs[i])]
    IN  IF \E i \in DOMAIN docs : scores[i].raised
        THEN [raised |-> TRUE, docs |-> <<>>]
        ELSE LET pairs == [i \in DOMAIN docs |->
                              [doc |-> docs[i], score |-> scores[i].score]]
                 sorted == SortDescending(pairs, 1, <<>>)
             IN  [raised |-> FALSE, docs |-> [i \in DOMAIN sorted |-> sorted[i].doc]]

(***************************************************************************)
(* HybridRetriever.__init__ and AdvancedHybridRetriever.__init__.          *)
(***************************************************************************)
\* the literal 1e-6 of the weight check
WeightTolerance == <<1, 1000000>>

\* NormalizeWeights without the rescaling branch
NormalizeWeightsNever(vector_weight, bm25_weight) ==
    [raised |-> FALSE, vector_weight |-> vector_weight,
     bm25_weight |-> bm25_weight]

\* lines 45-49: [raised |-> TRUE] for the ZeroDivisionError of a zero total,
\* else the pair of weights the instance keeps
NormalizeWeights(vector_weight, bm25_weight) ==
    LET total_weight == RAdd(vector_weight, bm25_weight)
    IN  IF RLess(WeightTolerance, RAbs(RSub(total_weight, One)))
        THEN IF total_weight = Zero
             THEN [raised |-> TRUE, vector_weight |-> vector_weight,
                   bm25_weight |-> bm25_weight]
             ELSE [raised |-> FALSE,
                   vector_weight |-> RDiv(vector_weight, total_weight),
                   bm25_weight |-> RDiv(bm25_weight, total_weight)]
        ELSE [raised |-> FALSE, vector_weight |-> vector_weight,
              bm25_weight |-> bm25_weight]

\* the instance after a constructor that returned
NewRetriever(w, k, advanced) ==
    [vector_weight |-> w.vector_weight, bm25_weight |-> w.bm25_weight,
     k |-> k, advanced |-> advanced,
     query_expansion |-> advanced, rerank |-> advanced]

(***************************************************************************)
(* The environment: what callers pass and what the backends return.        *)
(***************************************************************************)
\* "", "a", and two texts that share their first PrefixLen characters
CEmpty == <<>>

CA == <<"a">>

CLong1 == Repeat("x", PrefixLen) \o <<"1">>

CLong2 == Repeat("x", PrefixLen) \o <<"2">>

Contents == {CEmpty, CA, CLong1, CLong2}

\* distances 0.1 and 0.3
Distances == {<<1, 10>>, <<3, 10>>}

\* (vector_weight, bm25_weight) pairs given to the constructor: pure vector,
\* pure keyword, balanced, unnormalised (7, 3), a pair whose sum is
\* 1.0000005, and both zero
WeightInputs ==
    { <<One, Zero>>, <<Zero, One>>, <<Rat(1, 2), Rat(1, 2)>>,
      <<Rat(7, 1), Rat(3, 1)>>, <<Rat(1, 2), Rat(1000001, 2000000)>>,
      <<Zero, Zero>> }

KInputs == (0 - 1)..MaxK

\* queries that hold no key of the synonym table
Queries == {<<"a">>}

\* Each backend builds its own Document objects; the metadata records which.
VectorHits ==
    {[doc |-> Document(c, [source |-> "vector"]), score |-> d] :
        c \in Contents, d \in Distances}

\* The vector index returns hits by ascending distance, and a chunk's
\* distance to the query is a function of its text.
VectorResults ==
    {h \in SeqsUpTo(VectorHits, MaxHits) :
        /\ \A i, j \in DOMAIN h : i < j => ~RLess(h[j].score, h[i].score)
        /\ \A i, j \in DOMAIN h :
              h[i].doc.page_content = h[j].doc.page_content
                  => h[i].score = h[j].score}

\* The BM25 index returns documents best first.
KeywordResults ==
    SeqsUpTo({Document(c, [source |-> "bm25"]) : c \in Contents}, MaxHits)

(***************************************************************************)
(* State.                                                                  *)
(***************************************************************************)
VARIABLES
    ctor,              \* "none", "ok" or "raised": how __init__ ended
    args,              \* the arguments __init__ was called with
    self,              \* the retriever instance
    pc,                \* where the current _get_relevant_documents call is
    query,             \* its query
    expanded_queries,  \* the variants it loops over (basic: the query)
    qi,                \* index of the current variant
    vector_docs,       \* the vector backend's last answer
    bm25_docs,         \* the BM25 backend's last answer
    fused,             \* doc_scores and scored_docs of the _combine_results
                       \* call on vector_docs and bm25_docs, once made
    all_docs,          \* all_docs of the advanced retriever
    gathered,          \* identities of all candidates the call was given
    calls,             \* the backend calls of the current call, in order
    result,            \* the returned list
    error,             \* "none", or the exception the call ended with
    pure,              \* the last direct call of a helper method: its
                       \* arguments and what it returned
    vectorstore,       \* the documents held by self.vectorstore
    bm25_retriever,    \* the documents held by self.bm25_retriever
    threads,           \* the calls that concurrent callers have in progress
                       \* on the instance, one record of locals per caller
    _embeddings,       \* the module global of vectorstore.py
    instances,         \* how many instances make_embeddings has returned
    getters,           \* the get_embeddings calls of the threads
    stream,            \* the event_stream generator of a streaming response
    download           \* the auto_download_report call and its frames

vars ==
    <<ctor, args, self, pc, query, expanded_queries, qi, vector_docs,
      bm25_docs, fused, all_docs, gathered, calls, result, error,
      pure, vectorstore, bm25_retriever, threads,
      _embeddings, instances, getters, stream, download>>

None == [none |-> TRUE]

NoFusion == [made |-> FALSE, doc_scores |-> <<>>, scored_docs |-> <<>>]

callVars ==
    <<pc, query, expanded_queries, qi, vector_docs, bm25_docs, fused,
      all_docs, gathered, calls, result, error>>

\* no helper has been called directly
NoCall == [op |-> "none", query |-> <<>>, docs |-> <<>>, input |-> None,
           raised |-> FALSE, ret |-> <<>>]

\* the state of the backends and of the concurrent callers
sharedVars == <<vectorstore, bm25_retriever, threads>>

\* the state of the application around the retriever
appVars == <<_embeddings, instances, getters, stream, download>>

\* what the single-caller operations leave alone
otherVars == <<pure, vectorstore, bm25_retriever, threads, appVars>>

\* how many threads call get_embeddings
NumThreads == 2

Threads == 1..NumThreads

\* a thread that is not in get_embeddings; returned lists what its calls
\* returned so far
IdleGetter == [pc |-> "idle", made |-> None, returned |-> <<>>, raised |-> 0]

\* no request is being answered
IdleStream ==
    [endpoint |-> "none", pc |-> "idle", needs_tools |-> FALSE,
     events |-> <<>>, full_text |-> <<>>, left |-> 0, chunks |-> 0,
     saves |-> 0, saved_at |-> 0, saved |-> <<>>, pending |-> FALSE,
     raised |-> FALSE]

\* auto_download_report has not been called
IdleDownload ==
    [stack |-> <<>>, format |-> "none", recursive_calls |-> 0,
     enable_summary |-> FALSE, summaries |-> 0, degraded_by |-> "none",
     failure |-> "none", result |-> None, raised |-> FALSE, done |-> FALSE]

InitApp ==
    /\ _embeddings = None
    /\ instances = 0
    /\ getters = [t \in Threads |-> IdleGetter]
    /\ stream = IdleStream
    /\ download = IdleDownload

Init ==
    /\ ctor = "none"
    /\ args = None
    /\ self = None
    /\ pc = "idle"
    /\ query = <<>>
    /\ expanded_queries = <<>>
    /\ qi = 0
    /\ vector_docs = <<>>
    /\ bm25_docs = <<>>
    /\ fused = NoFusion
    /\ all_docs = <<>>
    /\ gathered = {}
    /\ calls = <<>>
    /\ result = <<>>
    /\ error = "none"
    /\ pure = NoCall
    /\ vectorstore = <<>>
    /\ bm25_retriever = <<>>
    /\ threads = <<>>
    /\ InitApp

(***************************************************************************)
(* Operations.                                                             *)
(***************************************************************************)
\* HybridRetriever(...) / AdvancedHybridRetriever(...)
Construct(vector_weight, bm25_weight, k, advanced) ==
    /\ ctor = "none"
    /\ args' = [vector_weight |-> vector_weight, bm25_weight |-> bm25_weight,
                k |-> k, advanced |-> advanced]
    /\ LET w == NormalizeWeights(vector_weight, bm25_weight)
       IN  IF w.raised
           THEN ctor' = "raised" /\ self' = None
           ELSE ctor' = "ok" /\ self' = NewRetriever(w, k, advanced)
    /\ UNCHANGED callVars
    /\ UNCHANGED otherVars

\* a caller enters _get_relevant_documents(q); line 157 for the advanced one
StartRetrieve(q) ==
    /\ ctor = "ok"
    /\ pc \in {"idle", "done"}
    /\ query' = q
    /\ expanded_queries' =
           IF self.advanced /\ self.query_expansion THEN _expand_query(q)
                                                    ELSE <<q>>
    /\ qi' = 1
    /\ pc' = "vector"
    /\ vector_docs' = <<>>
    /\ bm25_docs' = <<>>
    /\ fused' = NoFusion
    /\ all_docs' = <<>>
    /\ gathered' = {}
    /\ calls' = <<>>
    /\ result' = <<>>
    /\ error' = "none"
    /\ UNCHANGED <<ctor, args, self>>
    /\ UNCHANGED otherVars

\* VectorK with the basic mode's doubling in both modes
VectorKAlwaysDouble == self.k * 2

\* the k the vector backend is asked for: lines 61 and 163
VectorK == IF self.advanced THEN self.k ELSE self.k * 2

VectorCall ==
    [op |-> "similarity_search_with_score", query |-> expanded_queries[qi],
     k |-> VectorK]

KeywordCall ==
    [op |-> "get_relevant_documents", query |-> expanded_queries[qi], k |-> 0]

\* Raise with the exception swallowed: the method returns an empty list
RaiseSwallowed(call, exception) ==
    /\ calls' = Append(calls, call)
    /\ error' = "none"
    /\ result' = <<>>
    /\ pc' = "done"
    /\ UNCHANGED <<ctor, args, self, query, expanded_queries, qi,
                   vector_docs, bm25_docs, fused, all_docs, gathered>>
    /\ UNCHANGED otherVars

\* the exception of a backend call leaves the method
Raise(call, exception) ==
    /\ calls' = Append(calls, call)
    /\ error' = exception
    /\ result' = <<>>
    /\ pc' = "done"
    /\ UNCHANGED <<ctor, args, self, query, expanded_queries, qi,
                   vector_docs, bm25_docs, fused, all_docs, gathered>>
    /\ UNCHANGED otherVars

\* lines 60-62 and 163: the vector backend answers with at most k hits
VectorSearch(hits) ==
    /\ pc = "vector"
    /\ Len(hits) <= Max(VectorK, 0)
    /\ vector_docs' = hits
    /\ gathered' = gathered \cup {_get_doc_id(hits[i].doc) : i \in DOMAIN hits}
    /\ bm25_docs' = <<>>
    /\ fused' = NoFusion
    /\ calls' = Append(calls, VectorCall)
    /\ pc' = "keyword"
    /\ UNCHANGED <<ctor, args, self, query, expanded_queries, qi, all_docs,
                   result, error>>
    /\ UNCHANGED otherVars

VectorSearchRaises ==
    /\ pc = "vector"
    /\ Raise(VectorCall, "BackendUnavailable")

\* lines 65 and 164: the BM25 backend answers
KeywordSearch(docs) ==
    /\ pc = "keyword"
    /\ bm25_docs' = docs
    /\ gathered' = gathered \cup {_get_doc_id(docs[i]) : i \in DOMAIN docs}
    /\ calls' = Append(calls, KeywordCall)
    /\ pc' = "fuse"
    /\ UNCHANGED <<ctor, args, self, query, expanded_queries, qi, vector_docs,
                   fused, all_docs, result, error>>
    /\ UNCHANGED otherVars

KeywordSearchRaises ==
    /\ pc = "keyword"
    /\ Raise(KeywordCall, "BackendUnavailable")

\* what one _combine_results call computes
Fusion ==
    [made |-> TRUE,
     doc_scores |-> doc_scores(vector_docs, bm25_docs),
     scored_docs |-> scored_docs(self, vector_docs, bm25_docs)]

\* HybridRetriever._get_relevant_documents, lines 68-72
BasicFuse ==
    /\ pc = "fuse"
    /\ ~self.advanced
    /\ fused' = Fusion
    /\ result' = Slice(_combine_results(self, vector_docs, bm25_docs), self.k)
    /\ pc' = "done"
    /\ UNCHANGED <<ctor, args, self, query, expanded_queries, qi, vector_docs,
                   bm25_docs, all_docs, gathered, calls, error>>
    /\ UNCHANGED otherVars

\* AdvancedHybridRetriever._get_relevant_documents, lines 166-167 and the
\* loop's step to the next variant
AdvancedFuse ==
    /\ pc = "fuse"
    /\ self.advanced
    /\ fused' = Fusion
    /\ all_docs' = all_docs \o _combine_results(self, vector_docs, bm25_docs)
    /\ IF qi < Len(expanded_queries)
       THEN qi' = qi + 1 /\ pc' = "vector"
       ELSE qi' = qi /\ pc' = "finish"
    /\ UNCHANGED <<ctor, args, self, query, expanded_queries, vector_docs,
                   bm25_docs, gathered, calls, result, error>>
    /\ UNCHANGED otherVars

\* lines 170-175
AdvancedFinish ==
    /\ pc = "finish"
    /\ LET unique_docs == _deduplicate_docs(all_docs)
           reranked == IF self.rerank
                       THEN _rerank_documents(unique_docs, query)
                       ELSE [raised |-> FALSE, docs |-> unique_docs]
       IN  IF reranked.raised
           THEN error' = "ZeroDivisionError" /\ result' = <<>>
           ELSE error' = "none" /\ result' = Slice(reranked.docs, self.k)
    /\ pc' = "done"
    /\ UNCHANGED <<ctor, args, self, query, expanded_queries, qi, vector_docs,
                   bm25_docs, fused, all_docs, gathered, calls>>
    /\ UNCHANGED otherVars

Next ==
    \/ \E w \in WeightInputs, k \in KInputs, advanced \in BOOLEAN :
           Construct(w[1], w[2], k, advanced)
    \/ \E q \in Queries : StartRetrieve(q)
    \/ \E hits \in VectorResults : VectorSearch(hits)
    \/ VectorSearchRaises
    \/ \E docs \in KeywordResults : KeywordSearch(docs)
    \/ KeywordSearchRaises
    \/ BasicFuse
    \/ AdvancedFuse
    \/ AdvancedFinish

Spec == Init /\ [][Next]_vars

(***************************************************************************)
(* Vocabulary of the properties.                                           *)
(***************************************************************************)
\* the call returned a list (it did not end in an exception)
Returned == pc = "done" /\ error = "none"

IdsOf(docs) == {_get_doc_id(docs[i]) : i \in DOMAIN docs}

ContentsOf(docs) == [i \in DOMAIN docs |-> docs[i].page_content]

VectorDocs == [i \in DOMAIN vector_docs |-> vector_docs[i].doc]

FusedDocs == [i \in DOMAIN fused.scored_docs |-> fused.scored_docs[i].doc]

\* the fused entry (score components) of an identity
EntryOf(id) ==
    fused.doc_scores[CHOOSE i \in DOMAIN fused.doc_scores :
                         fused.doc_scores[i].doc_id = id]

\* the combined score the fusion gave a document of its output
CombinedOf(doc) ==
    fused.scored_docs[CHOOSE i \in DOMAIN fused.scored_docs :
                          fused.scored_docs[i].doc = doc].score

\* 1/(1+d) for the distance d = n/m, written out: m/(m+n)
Similarity(d) == Rat(d[2], d[2] + d[1])

\* out lists two different texts of the list "from" in an order only if some
\* occurrence of the first precedes some occurrence of the second in "from"
RelativeOrderKept(from, out) ==
    \A i, j \in DOMAIN out :
        (i < j /\ out[i] # out[j] /\ out[i] \in Range(from) /\ out[j] \in Range(from))
            => \E a, b \in DOMAIN from : a < b /\ from[a] = out[i] /\ from[b] = out[j]

(***************************************************************************)
(* C1.  retrieve returns at most k documents, and exactly min(k, U) where  *)
(* U is the number of distinct identities among the candidates gathered    *)
(* for the call, for every k a retriever can be constructed with.          *)
(***************************************************************************)
C1_ResultCountBound ==
    Returned =>
        /\ Len(result) <= self.k
        /\ Len(result) = Min(self.k, Cardinality(gathered))

(***************************************************************************)
(* C2.  A text that both backends returned has exactly one entry in the    *)
(* fused output, and that entry has a non-zero vector_score and a non-zero *)
(* bm25_score.  Stated for a retriever with k >= 1.                        *)
(***************************************************************************)
C2_SameContentOneEntry ==
    (fused.made /\ self.k >= 1) =>
        \A c \in Range(ContentsOf(VectorDocs)) \cap Range(ContentsOf(bm25_docs)) :
            /\ Cardinality({i \in DOMAIN FusedDocs :
                               FusedDocs[i].page_content = c}) = 1
            /\ \A i \in DOMAIN FusedDocs :
                   FusedDocs[i].page_content = c =>
                       /\ EntryOf(_get_doc_id(FusedDocs[i])).vector_score # Zero
                       /\ EntryOf(_get_doc_id(FusedDocs[i])).bm25_score # Zero

(***************************************************************************)
(* C3.  The fusion has one entry for every identity that occurs in either  *)
(* result list, and no other; the entry's combined score is                *)
(* vector_weight * vector_score + bm25_weight * keyword_score, with        *)
(* vector_score = 1/(1+d) for the distance d of a vector hit of that       *)
(* identity (0 if there is none) and keyword_score = 1/(r+1) for the       *)
(* 0-based rank r of a keyword hit of that identity (0 if there is none).  *)
(***************************************************************************)
C3_FusionScores ==
    fused.made =>
        LET ids == IdsOf(VectorDocs) \cup IdsOf(bm25_docs)
            VectorScores(id) ==
                LET at == {p \in DOMAIN vector_docs :
                              _get_doc_id(vector_docs[p].doc) = id}
                IN  IF at = {} THEN {Zero}
                    ELSE {Similarity(vector_docs[p].score) : p \in at}
            KeywordScores(id) ==
                LET at == {p \in DOMAIN bm25_docs : _get_doc_id(bm25_docs[p]) = id}
                IN  IF at = {} THEN {Zero}
                    ELSE {Rat(1, (p - 1) + 1) : p \in at}
        IN  /\ IdsOf(FusedDocs) = ids
            /\ Len(FusedDocs) = Cardinality(ids)
            /\ \A i \in DOMAIN FusedDocs :
                   LET e == EntryOf(_get_doc_id(FusedDocs[i]))
                   IN  /\ e.vector_score \in VectorScores(e.doc_id)
                       /\ e.bm25_score \in KeywordScores(e.doc_id)
                       /\ fused.scored_docs[i].score =
                              RAdd(RMul(self.vector_weight, e.vector_score),
                                   RMul(self.bm25_weight, e.bm25_score))

\* a fusion of a document found by both backends, one found only by the
\* vector backend and one found only by the keyword backend
C3_Witness ==
    /\ fused.made
    /\ \E i, j, m \in DOMAIN fused.doc_scores :
           /\ fused.doc_scores[i].vector_score # Zero
           /\ fused.doc_scores[i].bm25_score # Zero
           /\ fused.doc_scores[j].vector_score # Zero
           /\ fused.doc_scores[j].bm25_score = Zero
           /\ fused.doc_scores[m].vector_score = Zero
           /\ fused.doc_scores[m].bm25_score # Zero
    /\ self.vector_weight = <<7, 10>>

(***************************************************************************)
(* C4.  Basic retrieve returns the top of the fusion: the returned list is *)
(* in non-increasing order of combined score, every returned document is a *)
(* fused candidate, and no candidate that was left out has a strictly      *)
(* higher combined score than a returned one.                              *)
(***************************************************************************)
C4_TopKByCombinedScore ==
    (Returned /\ ~self.advanced) =>
        /\ \A i \in DOMAIN result : result[i] \in Range(FusedDocs)
        /\ \A i, j \in DOMAIN result :
               i < j => ~RLess(CombinedOf(result[i]), CombinedOf(result[j]))
        /\ \A i \in DOMAIN FusedDocs :
               FusedDocs[i] \notin Range(result) =>
                   \A j \in DOMAIN result :
                       ~RLess(CombinedOf(result[j]), fused.scored_docs[i].score)

\* two documents returned in strictly decreasing score while a third,
\* lower-scoring candidate is cut off
C4_Witness ==
    /\ Returned /\ ~self.advanced
    /\ Len(result) = 2
    /\ Len(FusedDocs) > 2
    /\ RLess(CombinedOf(result[2]), CombinedOf(result[1]))
    /\ \E i \in DOMAIN FusedDocs :
           /\ FusedDocs[i] \notin Range(result)
           /\ RLess(fused.scored_docs[i].score, CombinedOf(result[2]))

(***************************************************************************)
(* C5.  For a positive input pair the stored weights sum to 1 and keep the *)
(* input pair's ratio.  As claimed: the sum is exactly 1.                  *)
(***************************************************************************)
PositiveWeights ==
    RLess(Zero, args.vector_weight) /\ RLess(Zero, args.bm25_weight)

StoredSum == RAdd(self.vector_weight, self.bm25_weight)

InputSum == RAdd(args.vector_weight, args.bm25_weight)

RatioKept ==
    RMul(self.vector_weight, args.bm25_weight)
        = RMul(self.bm25_weight, args.vector_weight)

C5_WeightsSumExactlyOne ==
    (ctor = "ok" /\ PositiveWeights) => (StoredSum = One /\ RatioKept)

(***************************************************************************)
(* C5, amended.  For a positive input pair the stored weights keep the     *)
(* input pair's ratio and sum to 1 to within 1e-6, at construction and     *)
(* throughout every later call: a pair whose sum differs from 1 by more    *)
(* than 1e-6 is rescaled to sum exactly 1, any other pair is stored as     *)
(* given.                                                                  *)
(***************************************************************************)
C5_WeightsSumWithinTolerance ==
    (ctor = "ok" /\ PositiveWeights) =>
        /\ RatioKept
        /\ RLeq(RAbs(RSub(StoredSum, One)), <<1, 1000000>>)
        /\ IF RLess(<<1, 1000000>>, RAbs(RSub(InputSum, One)))
           THEN StoredSum = One
           ELSE /\ self.vector_weight = args.vector_weight
                /\ self.bm25_weight = args.bm25_weight

\* a retriever built with (7, 3) holds (0.7, 0.3) after a call has returned
C5_Witness ==
    /\ ctor = "ok"
    /\ args.vector_weight = <<7, 1>> /\ args.bm25_weight = <<3, 1>>
    /\ self.vector_weight = <<7, 10>> /\ self.bm25_weight = <<3, 10>>
    /\ Returned /\ result # <<>>

(***************************************************************************)
(* C6.  Constructing a retriever with both weights zero, or with k <= 0,   *)
(* fails at construction, so no backend call is issued by a retriever with *)
(* such a configuration.                                                   *)
(***************************************************************************)
C6_BadConfigurationRejected ==
    (ctor # "none"
        /\ (\/ (args.vector_weight = Zero /\ args.bm25_weight = Zero)
            \/ args.k <= 0))
      => (ctor = "raised" /\ calls = <<>>)

(***************************************************************************)
(* C7.  With weights (1, 0) the texts the vector backend returned appear   *)
(* in the fusion output, and in the list basic retrieve returns, in the    *)
(* relative order in which the vector backend returned them.  Stated for   *)
(* a retriever with k >= 1.                                                *)
(***************************************************************************)
C7_PureVectorKeepsOrder ==
    (fused.made /\ ~self.advanced /\ self.k >= 1
        /\ args.vector_weight = One /\ args.bm25_weight = Zero) =>
        /\ RelativeOrderKept(ContentsOf(VectorDocs), ContentsOf(FusedDocs))
        /\ Returned =>
               RelativeOrderKept(ContentsOf(VectorDocs), ContentsOf(result))

(***************************************************************************)
(* C8.  With weights (0, 1) the texts the keyword backend returned appear  *)
(* in the fusion output, and in the list basic retrieve returns, in the    *)
(* relative order of the keyword backend's ranking.  Stated for a          *)
(* retriever with k >= 1.                                                  *)
(***************************************************************************)
C8_PureKeywordKeepsOrder ==
    (fused.made /\ ~self.advanced /\ self.k >= 1
        /\ args.vector_weight = Zero /\ args.bm25_weight = One) =>
        /\ RelativeOrderKept(ContentsOf(bm25_docs), ContentsOf(FusedDocs))
        /\ Returned =>
               RelativeOrderKept(ContentsOf(bm25_docs), ContentsOf(result))

(***************************************************************************)
(* C9.  Empty backend results are no error, in either mode.  If the        *)
(* keyword backend returned nothing, every fused entry has bm25_score 0    *)
(* and combined score vector_weight * vector_score; if the vector backend  *)
(* returned nothing, every fused entry has vector_score 0 and combined     *)
(* score bm25_weight * bm25_score; and a call whose backends all answered  *)
(* with nothing returns the empty list without raising.                    *)
(***************************************************************************)
C9_EmptyBackendResults ==
    /\ (fused.made /\ bm25_docs = <<>>) =>
           \A i \in DOMAIN fused.doc_scores :
               LET e == fused.doc_scores[i]
               IN  /\ e.bm25_score = Zero
                   /\ e.vector_score # Zero
                   /\ CombinedOf(e.doc) = RMul(self.vector_weight, e.vector_score)
    /\ (fused.made /\ vector_docs = <<>>) =>
           \A i \in DOMAIN fused.doc_scores :
               LET e == fused.doc_scores[i]
               IN  /\ e.vector_score = Zero
                   /\ e.bm25_score # Zero
                   /\ CombinedOf(e.doc) = RMul(self.bm25_weight, e.bm25_score)
    /\ (pc = "done" /\ error # "BackendUnavailable" /\ gathered = {}) =>
           (error = "none" /\ result = <<>>)

\* scenario C in advanced mode: weights (0.5, 0.5), no keyword hit, two
\* vector hits, and the call returns them scored 0.5 * vector_score
C9_Witness ==
    /\ Returned /\ self.advanced
    /\ self.vector_weight = <<1, 2>> /\ self.bm25_weight = <<1, 2>>
    /\ bm25_docs = <<>>
    /\ Len(vector_docs) = 2
    /\ Len(result) = 2
    /\ \A i \in DOMAIN fused.scored_docs :
           fused.scored_docs[i].score \in {<<5, 11>>, <<5, 13>>}

(***************************************************************************)
(* C10.  Reranking scores every candidate without raising, also a document *)
(* whose text is empty: a call can only fail at a backend call.  Stated    *)
(* for a retriever with k >= 1.                                            *)
(***************************************************************************)
C10_OnlyBackendCallsFail ==
    (ctor = "ok" /\ self.k >= 1) => error \in {"none", "BackendUnavailable"}

(***************************************************************************)
(* The helper methods called directly, on inputs of the caller's choice.   *)
(***************************************************************************)
\* the two characters of the first synonym-table key, and so on
GuPiao == <<"gu", "piao">>

GongSi == <<"gong", "si">>

BiaoXian == <<"biao", "xian">>

\* the eight-character query of the advanced example: the characters of
\* "apple", then the three keys of the table
AppleQuery == <<"ping", "guo">> \o GongSi \o GuPiao \o BiaoXian

\* queries given to _expand_query: without a key, empty, one key, a key
\* twice, a key next to one of its own synonyms, two keys, all three keys
ExpandInputs ==
    { <<"a">>, <<>>, GuPiao, GongSi, BiaoXian,
      GuPiao \o <<"a">> \o GuPiao,
      <<"gu", "jia">> \o GuPiao,
      BiaoXian \o GuPiao,
      AppleQuery }

\* longest list given to _rerank_documents
MaxRerank == 3

\* documents given to _rerank_documents: empty text, one word, two words, a
\* word repeated, another word, and one text from two different backends
RerankDocuments ==
    { Document(CEmpty, [source |-> "bm25"]),
      Document(CA, [source |-> "vector"]),
      Document(CA, [source |-> "bm25"]),
      Document(<<"a", " ", "b">>, [source |-> "bm25"]),
      Document(<<"a", " ", "a">>, [source |-> "bm25"]),
      Document(<<"b">>, [source |-> "bm25"]) }

RerankQueries == { <<>>, <<"a">>, <<"A", " ", "b">> }

\* self._expand_query(q).  The helpers keep nothing between calls, so a
\* behaviour makes one direct call.
Call_expand_query(q) ==
    /\ pure.op = "none"
    /\ pure' = [op |-> "_expand_query", query |-> q, docs |-> <<>>,
                input |-> None,
                raised |-> FALSE, ret |-> _expand_query(q)]
    /\ UNCHANGED <<ctor, args, self>>
    /\ UNCHANGED callVars
    /\ UNCHANGED sharedVars
    /\ UNCHANGED appVars

\* self._rerank_documents(docs, q)
Call_rerank_documents(docs, q) ==
    /\ pure.op = "none"
    /\ LET r == _rerank_documents(docs, q)
       IN  pure' = [op |-> "_rerank_documents", query |-> q, docs |-> docs,
                    input |-> None,
                    raised |-> r.raised, ret |-> r.docs]
    /\ UNCHANGED <<ctor, args, self>>
    /\ UNCHANGED callVars
    /\ UNCHANGED sharedVars
    /\ UNCHANGED appVars

NextPure ==
    \/ \E q \in ExpandInputs : Call_expand_query(q)
    \/ \E docs \in SeqsUpTo(RerankDocuments, MaxRerank), q \in RerankQueries :
           Call_rerank_documents(docs, q)

SpecPure == Init /\ [][NextPure]_vars

\* how often x occurs in the list
Occurrences(list, x) == Cardinality({i \in DOMAIN list : list[i] = x})

IsPermutation(a, b) ==
    /\ Len(a) = Len(b)
    /\ \A x \in Range(a) \cup Range(b) : Occurrences(a, x) = Occurrences(b, x)

(***************************************************************************)
(* C11.  _rerank_documents returns a permutation of its input: for every   *)
(* input list and every query the call returns, and the returned list      *)
(* holds the documents of the input with the same multiplicities.          *)
(***************************************************************************)
C11_RerankReturnsPermutation ==
    pure.op = "_rerank_documents" =>
        ~pure.raised /\ IsPermutation(pure.docs, pure.ret)

(***************************************************************************)
(* C13.  _expand_query returns a list that starts with the original query, *)
(* holds no string twice, holds exactly the query and the substitutions of *)
(* the table keys that occur in it, lists them in table order and, within  *)
(* one key, in synonym order, and is [query] when no key occurs.           *)
(***************************************************************************)
C13_ExpandQueryContract ==
    pure.op = "_expand_query" =>
        LET q == pure.query
            ret == pure.ret
            Gen == {g \in (DOMAIN synonyms) \X (1..4) :
                       /\ g[2] \in DOMAIN synonyms[g[1]].syns
                       /\ Contains(q, synonyms[g[1]].original)}
            Var(g) == Replace(q, synonyms[g[1]].original, synonyms[g[1]].syns[g[2]])
            Before(g, h) == g[1] < h[1] \/ (g[1] = h[1] /\ g[2] < h[2])
        IN  /\ Len(ret) >= 1
            /\ ret[1] = q
            /\ \A i, j \in DOMAIN ret : i # j => ret[i] # ret[j]
            /\ Range(ret) = {q} \cup {Var(g) : g \in Gen}
            /\ \A i, j \in DOMAIN ret :
                   (1 < i /\ i < j) =>
                       \E g, h \in Gen :
                           Var(g) = ret[i] /\ Var(h) = ret[j] /\ Before(g, h)
            /\ (Gen = {}) => ret = <<q>>

\* a query with two keys: the original, then four and four substitutions
C13_Witness ==
    /\ pure.op = "_expand_query"
    /\ pure.query = BiaoXian \o GuPiao
    /\ Len(pure.ret) = 9
    /\ pure.ret[2] = BiaoXian \o <<"gu", "jia">>
    /\ pure.ret[6] = <<"ye", "ji4">> \o GuPiao

(***************************************************************************)
(* Several callers on one instance.  Each caller runs one call of          *)
(* _get_relevant_documents or of add_documents; the calls interleave at    *)
(* the backend calls, which are the steps that touch shared state.  The    *)
(* method's local variables belong to the caller.  The two backends are    *)
(* the objects the instance holds references to (lines 39-40); what they   *)
(* hold is a list of documents, and what they answer is a function of      *)
(* that list and of the query.                                             *)
(***************************************************************************)
\* how many callers there are
NumCallers == 2

Callers == 1..NumCallers

DocAB == Document(<<"a", " ", "b">>, [source |-> "loader"])

DocA == Document(CA, [source |-> "loader"])

DocGuJia == Document(<<"gu", "jia">>, [source |-> "loader"])

DocGuPiao == Document(GuPiao, [source |-> "loader"])

\* what both backends hold when the instance is built
InitialStores == { <<>>, <<DocAB, DocA>>, <<DocGuJia, DocGuPiao>> }

\* the documents each caller passes to add_documents
Batches == [t \in Callers |-> IF t = 1 THEN <<DocA>> ELSE <<DocGuPiao>>]

\* the constructor arguments of the shared instance
SharedWeights == { <<Rat(7, 10), Rat(3, 10)>> }

SharedQueries == { <<"a">>, GuPiao, AppleQuery }

\* The vector index: the distance of a stored text to the query is 0.1 when
\* the text contains the query and 0.3 otherwise; the k nearest are returned,
\* nearest first, as Documents the index builds itself.
Distance(q, content) ==
    IF Contains(Lower(content), Lower(q)) THEN <<1, 10>> ELSE <<3, 10>>

similarity_search_with_score(store, q, k) ==
    LET hits == [i \in DOMAIN store |->
                    [doc |-> Document(store[i].page_content, [source |-> "vector"]),
                     score |-> Distance(q, store[i].page_content)]]
        Near(h) == h.score = <<1, 10>>
        Far(h) == h.score # <<1, 10>>
    IN  Slice(SelectSeq(hits, Near) \o SelectSeq(hits, Far), Max(k, 0))

\* The BM25 index: the stored texts with a word that occurs in the query, in
\* stored order, as Documents the index builds itself.
get_relevant_documents(store, q) ==
    LET docs == [i \in DOMAIN store |->
                    Document(store[i].page_content, [source |-> "bm25"])]
        Match(d) == \E w \in TermSet(d.page_content) : Contains(Lower(q), w)
    IN  SelectSeq(docs, Match)

\* The entries of a caller's log of backend operations: the operation and
\* the arguments it was called with.
VectorQuery(q, k) ==
    [op |-> "similarity_search_with_score", query |-> q, k |-> k,
     documents |-> <<>>]

KeywordQuery(q) ==
    [op |-> "get_relevant_documents", query |-> q, k |-> 0, documents |-> <<>>]

VectorAdd(documents) ==
    [op |-> "vectorstore.add_documents", query |-> <<>>, k |-> 0,
     documents |-> documents]

KeywordAdd(documents) ==
    [op |-> "bm25_retriever.add_documents", query |-> <<>>, k |-> 0,
     documents |-> documents]

\* the local variables of a caller that has not called anything
IdleCaller ==
    [op |-> "none", pc |-> "idle", query |-> <<>>, expanded_queries |-> <<>>,
     qi |-> 0, vector_docs |-> <<>>, bm25_docs |-> <<>>, all_docs |-> <<>>,
     unique_docs |-> <<>>, calls |-> <<>>, result |-> <<>>, error |-> "none",
     documents |-> <<>>,
     \* what the backends held when this call last queried them, and when
     \* the call began
     vector_seen |-> <<>>, bm25_seen |-> <<>>, started_on |-> <<>>]

InitShared ==
    /\ ctor = "none"
    /\ args = None
    /\ self = None
    /\ pc = "idle"
    /\ query = <<>>
    /\ expanded_queries = <<>>
    /\ qi = 0
    /\ vector_docs = <<>>
    /\ bm25_docs = <<>>
    /\ fused = NoFusion
    /\ all_docs = <<>>
    /\ gathered = {}
    /\ calls = <<>>
    /\ result = <<>>
    /\ error = "none"
    /\ pure = NoCall
    /\ \E store \in InitialStores :
           vectorstore = store /\ bm25_retriever = store
    /\ threads = [t \in Callers |-> IdleCaller]
    /\ InitApp

\* what a caller's step leaves alone besides the backends
CallerFrame ==
    /\ UNCHANGED <<ctor, args, self>>
    /\ UNCHANGED callVars
    /\ UNCHANGED pure
    /\ UNCHANGED appVars

\* SetLocals with one set of locals for all callers that retrieve
SetLocalsOnInstance(t, locals) ==
    [u \in DOMAIN threads |->
        IF u = t \/ threads[u].op = "retrieve" THEN locals ELSE threads[u]]

\* a caller's step assigns that caller's local variables
SetLocals(t, locals) == [threads EXCEPT ![t] = locals]

SharedConstruct ==
    \E w \in SharedWeights, k \in 1..MaxK, advanced \in BOOLEAN :
        Construct(w[1], w[2], k, advanced)

\* caller t enters _get_relevant_documents(q)
CallerRetrieve(t, q) ==
    /\ ctor = "ok"
    /\ threads[t].op = "none"
    /\ threads' = SetLocals(t,
           [IdleCaller EXCEPT
               !.op = "retrieve", !.pc = "vector", !.query = q,
               !.expanded_queries =
                   IF self.advanced /\ self.query_expansion
                   THEN _expand_query(q) ELSE <<q>>,
               !.qi = 1,
               !.started_on = <<vectorstore, bm25_retriever>>])
    /\ UNCHANGED <<vectorstore, bm25_retriever>>
    /\ CallerFrame

\* lines 60-62 and 163
CallerVectorSearch(t) ==
    LET me == threads[t]
        q == me.expanded_queries[me.qi]
    IN  /\ me.op = "retrieve"
        /\ me.pc = "vector"
        /\ threads' = SetLocals(t,
               [me EXCEPT
                   !.vector_docs =
                       similarity_search_with_score(vectorstore, q, VectorK),
                   !.bm25_docs = <<>>,
                   !.calls = Append(@, VectorQuery(q, VectorK)),
                   !.vector_seen = vectorstore,
                   !.pc = "keyword"])
        /\ UNCHANGED <<vectorstore, bm25_retriever>>
        /\ CallerFrame

\* lines 65 and 164
CallerKeywordSearch(t) ==
    LET me == threads[t]
        q == me.expanded_queries[me.qi]
    IN  /\ me.op = "retrieve"
        /\ me.pc = "keyword"
        /\ threads' = SetLocals(t,
               [me EXCEPT
                   !.bm25_docs = get_relevant_documents(bm25_retriever, q),
                   !.calls = Append(@, KeywordQuery(q)),
                   !.bm25_seen = bm25_retriever,
                   !.pc = "fuse"])
        /\ UNCHANGED <<vectorstore, bm25_retriever>>
        /\ CallerFrame

\* the backend call the caller is at raises; neither method has a try, so
\* the exception leaves the method
CallerBackendRaises(t) ==
    LET me == threads[t]
        q == me.expanded_queries[me.qi]
    IN  /\ me.op = "retrieve"
        /\ me.pc \in {"vector", "keyword"}
        /\ threads' = SetLocals(t,
               [me EXCEPT
                   !.calls = Append(@,
                       IF me.pc = "vector" THEN VectorQuery(q, VectorK)
                                           ELSE KeywordQuery(q)),
                   !.error = "BackendUnavailable",
                   !.result = <<>>,
                   !.pc = "done"])
        /\ UNCHANGED <<vectorstore, bm25_retriever>>
        /\ CallerFrame

\* lines 68-72
CallerBasicFuse(t) ==
    LET me == threads[t]
    IN  /\ me.op = "retrieve"
        /\ me.pc = "fuse"
        /\ ~self.advanced
        /\ threads' = SetLocals(t,
               [me EXCEPT
                   !.result = Slice(_combine_results(self, me.vector_docs,
                                                     me.bm25_docs), self.k),
                   !.pc = "done"])
        /\ UNCHANGED <<vectorstore, bm25_retriever>>
        /\ CallerFrame

\* lines 166-167 and the loop's step to the next variant
CallerAdvancedFuse(t) ==
    LET me == threads[t]
    IN  /\ me.op = "retrieve"
        /\ me.pc = "fuse"
        /\ self.advanced
        /\ threads' = SetLocals(t,
               [me EXCEPT
                   !.all_docs = @ \o _combine_results(self, me.vector_docs,
                                                      me.bm25_docs),
                   !.qi = IF me.qi < Len(me.expanded_queries) THEN @ + 1 ELSE @,
                   !.pc = IF me.qi < Len(me.expanded_queries)
                          THEN "vector" ELSE "finish"])
        /\ UNCHANGED <<vectorstore, bm25_retriever>>
        /\ CallerFrame

\* lines 170-175
CallerAdvancedFinish(t) ==
    LET me == threads[t]
        unique_docs == _deduplicate_docs(me.all_docs)
        reranked == IF self.rerank
                    THEN _rerank_documents(unique_docs, me.query)
                    ELSE [raised |-> FALSE, docs |-> unique_docs]
    IN  /\ me.op = "retrieve"
        /\ me.pc = "finish"
        /\ threads' = SetLocals(t,
               [me EXCEPT
                   !.unique_docs = unique_docs,
                   !.error = IF reranked.raised THEN "ZeroDivisionError" ELSE "none",
                   !.result = IF reranked.raised THEN <<>>
                              ELSE Slice(reranked.docs, self.k),
                   !.pc = "done"])
        /\ UNCHANGED <<vectorstore, bm25_retriever>>
        /\ CallerFrame

\* caller t enters add_documents(documents)
CallerAddDocuments(t) ==
    /\ ctor = "ok"
    /\ threads[t].op = "none"
    /\ threads' = SetLocals(t,
           [IdleCaller EXCEPT
               !.op = "add_documents", !.pc = "add_vector",
               !.documents = Batches[t],
               !.started_on = <<vectorstore, bm25_retriever>>])
    /\ UNCHANGED <<vectorstore, bm25_retriever>>
    /\ CallerFrame

\* line 134
CallerAddToVectorstore(t) ==
    LET me == threads[t]
    IN  /\ me.op = "add_documents"
        /\ me.pc = "add_vector"
        /\ vectorstore' = vectorstore \o me.documents
        /\ threads' = SetLocals(t,
               [me EXCEPT !.calls = Append(@, VectorAdd(me.documents)),
                          !.pc = "add_bm25"])
        /\ UNCHANGED bm25_retriever
        /\ CallerFrame

\* CallerAddToBm25 with the keyword backend called a second time
CallerAddToBm25Twice(t) ==
    LET me == threads[t]
    IN  /\ me.op = "add_documents"
        /\ me.pc = "add_bm25"
        /\ bm25_retriever' = bm25_retriever \o me.documents \o me.documents
        /\ threads' = SetLocals(t,
               [me EXCEPT !.calls = @ \o <<KeywordAdd(me.documents),
                                           KeywordAdd(me.documents)>>,
                          !.pc = "done"])
        /\ UNCHANGED vectorstore
        /\ CallerFrame

\* line 137
CallerAddToBm25(t) ==
    LET me == threads[t]
    IN  /\ me.op = "add_documents"
        /\ me.pc = "add_bm25"
        /\ bm25_retriever' = bm25_retriever \o me.documents
        /\ threads' = SetLocals(t,
               [me EXCEPT !.calls = Append(@, KeywordAdd(me.documents)),
                          !.pc = "done"])
        /\ UNCHANGED vectorstore
        /\ CallerFrame

\* The backend addition the caller is at (line 134 or line 137) raises and
\* adds nothing.  add_documents has no try: the exception leaves the method,
\* and what line 134 added to the vector backend stays there.
CallerAddRaises(t) ==
    LET me == threads[t]
    IN  /\ me.op = "add_documents"
        /\ me.pc \in {"add_vector", "add_bm25"}
        /\ threads' = SetLocals(t,
               [me EXCEPT
                   !.calls = Append(@, IF me.pc = "add_vector"
                                       THEN VectorAdd(me.documents)
                                       ELSE KeywordAdd(me.documents)),
                   !.error = "BackendUnavailable",
                   !.pc = "done"])
        /\ UNCHANGED <<vectorstore, bm25_retriever>>
        /\ CallerFrame

NextShared ==
    \/ SharedConstruct
    \/ \E t \in Callers, q \in SharedQueries : CallerRetrieve(t, q)
    \/ \E t \in Callers : CallerVectorSearch(t)
    \/ \E t \in Callers : CallerKeywordSearch(t)
    \/ \E t \in Callers : CallerBackendRaises(t)
    \/ \E t \in Callers : CallerBasicFuse(t)
    \/ \E t \in Callers : CallerAdvancedFuse(t)
    \/ \E t \in Callers : CallerAdvancedFinish(t)
    \/ \E t \in Callers : CallerAddDocuments(t)
    \/ \E t \in Callers : CallerAddToVectorstore(t)
    \/ \E t \in Callers : CallerAddToBm25(t)
    \/ \E t \in Callers : CallerAddRaises(t)

SpecShared == InitShared /\ [][NextShared]_vars

(***************************************************************************)
(* Vocabulary of the properties of concurrent callers.                     *)
(***************************************************************************)
\* caller t's advanced call returned a list
AdvancedReturned(t) ==
    /\ ctor = "ok"
    /\ self.advanced
    /\ threads[t].op = "retrieve"
    /\ threads[t].pc = "done"
    /\ threads[t].error = "none"

\* no add_documents call has ended with an exception
NoAddFailed ==
    \A t \in Callers :
        threads[t].op = "add_documents" => threads[t].error = "none"

\* 0.7 * jaccard + 0.3 * term_density of a non-empty text against a query
RelevanceOf(q, doc) ==
    LET qt == TermSet(q)
        dt == TermSet(doc.page_content)
        jaccard == IF qt \cup dt = {} THEN Zero
                   ELSE Rat(Cardinality(qt \cap dt), Cardinality(qt \cup dt))
        density == IF qt \cup dt = {} THEN Zero
                   ELSE Rat(SumCounts(Lower(doc.page_content), qt),
                            Len(doc.page_content))
    IN  RAdd(RMul(Rat(7, 10), jaccard), RMul(Rat(3, 10), density))

\* the first position of a document in a list
PositionIn(list, doc) ==
    CHOOSE i \in DOMAIN list :
        list[i] = doc /\ \A j \in DOMAIN list : list[j] = doc => i <= j

(***************************************************************************)
(* C12.  In advanced mode the returned list is ordered by the rerank score *)
(* 0.7 * jaccard + 0.3 * term_density against the original query alone:    *)
(* it is the first k documents of the deduplicated candidates in           *)
(* non-increasing order of that score, documents of equal score in their   *)
(* order among the candidates, whatever their combined scores were.        *)
(***************************************************************************)
C12_RerankScoreDecidesOrder ==
    \A t \in Callers :
        AdvancedReturned(t) =>
            LET in == threads[t].unique_docs
                out == threads[t].result
                S(d) == RelevanceOf(threads[t].query, d)
            IN  /\ Len(out) = Min(self.k, Len(in))
                /\ Range(out) \subseteq Range(in)
                /\ \A i, j \in DOMAIN out :
                       i < j =>
                           /\ ~RLess(S(out[i]), S(out[j]))
                           /\ S(out[i]) = S(out[j]) =>
                                 PositionIn(in, out[i]) < PositionIn(in, out[j])
                /\ \A d \in Range(in) \ Range(out) :
                       \A i \in DOMAIN out :
                           /\ ~RLess(S(out[i]), S(d))
                           /\ S(out[i]) = S(d) =>
                                 PositionIn(in, out[i]) < PositionIn(in, d)

\* the fusion ranked "a b" first and the rerank score puts "a" first
C12_Witness ==
    \E t \in Callers :
        /\ AdvancedReturned(t)
        /\ Len(threads[t].unique_docs) = 2
        /\ Len(threads[t].result) = 2
        /\ threads[t].result[1] = threads[t].unique_docs[2]
        /\ threads[t].result[2] = threads[t].unique_docs[1]

(***************************************************************************)
(* C14.  For the eight-character example query in advanced mode the        *)
(* expansion has exactly 5 variants and exactly 5 per-variant retrievals   *)
(* are made before deduplication and reranking.                            *)
(***************************************************************************)
C14_FiveVariantsFiveRetrievals ==
    \A t \in Callers :
        (/\ ctor = "ok" /\ self.advanced
         /\ threads[t].op = "retrieve"
         /\ threads[t].query = AppleQuery) =>
            /\ Len(threads[t].expanded_queries) = 5
            /\ (threads[t].pc \in {"finish", "done"} /\ threads[t].error = "none")
                   => Len(threads[t].calls) = 2 * 5

(***************************************************************************)
(* C14, amended.  For that query the expansion has exactly 12 variants:    *)
(* the original, then the 4 substitutions of the first key, the 3 of the   *)
(* second and the 4 of the third; and exactly 12 per-variant retrievals,   *)
(* one vector query and one keyword query for each variant in that order,  *)
(* are made before deduplication and reranking.                            *)
(***************************************************************************)
C14_TwelveVariantsTwelveRetrievals ==
    \A t \in Callers :
        (/\ ctor = "ok" /\ self.advanced
         /\ threads[t].op = "retrieve"
         /\ threads[t].query = AppleQuery) =>
            LET me == threads[t]
                v == me.expanded_queries
                Sub(key, syn) == Replace(AppleQuery, key, syn)
            IN  /\ Len(v) = 12
                /\ v[1] = AppleQuery
                /\ \A i \in 1..4 : v[1 + i] = Sub(GuPiao, synonyms[1].syns[i])
                /\ \A i \in 1..3 : v[5 + i] = Sub(GongSi, synonyms[2].syns[i])
                /\ \A i \in 1..4 : v[8 + i] = Sub(BiaoXian, synonyms[3].syns[i])
                /\ \A i, j \in 1..12 : i # j => v[i] # v[j]
                /\ (me.pc \in {"finish", "done"} /\ me.error = "none") =>
                       /\ Len(me.calls) = 2 * 12
                       /\ \A i \in 1..12 :
                              /\ me.calls[2 * i - 1] = VectorQuery(v[i], self.k)
                              /\ me.calls[2 * i] = KeywordQuery(v[i])
                /\ me.pc # "done" => me.unique_docs = <<>>

C14_Witness ==
    \E t \in Callers :
        /\ AdvancedReturned(t)
        /\ threads[t].query = AppleQuery
        /\ Len(threads[t].calls) = 24
        /\ threads[t].result # <<>>

(***************************************************************************)
(* C15.  In advanced mode the list given to the reranker and the returned  *)
(* list hold no two documents of one identity, though the same document    *)
(* comes back for several variants: every identity among the variants'     *)
(* results is kept once, as its first occurrence in variant order.         *)
(***************************************************************************)
C15_DedupAcrossVariants ==
    \A t \in Callers :
        (/\ ctor = "ok" /\ self.advanced
         /\ threads[t].op = "retrieve"
         /\ threads[t].pc = "done"
         /\ threads[t].error # "BackendUnavailable") =>
            LET all == threads[t].all_docs
                u == threads[t].unique_docs
                out == threads[t].result
                First(id) == CHOOSE i \in DOMAIN all :
                                 /\ _get_doc_id(all[i]) = id
                                 /\ \A j \in DOMAIN all :
                                        _get_doc_id(all[j]) = id => i <= j
            IN  /\ \A i, j \in DOMAIN u :
                       i # j => _get_doc_id(u[i]) # _get_doc_id(u[j])
                /\ \A i, j \in DOMAIN out :
                       i # j => _get_doc_id(out[i]) # _get_doc_id(out[j])
                /\ IdsOf(u) = IdsOf(all)
                /\ \A i \in DOMAIN u : u[i] = all[First(_get_doc_id(u[i]))]
                /\ \A i, j \in DOMAIN u :
                       i < j => First(_get_doc_id(u[i])) < First(_get_doc_id(u[j]))

\* two documents, each returned for all five variants of a query
C15_Witness ==
    \E t \in Callers :
        /\ AdvancedReturned(t)
        /\ Len(threads[t].expanded_queries) = 5
        /\ Len(threads[t].all_docs) = 10
        /\ Len(threads[t].unique_docs) = 2
        /\ Len(threads[t].result) = 2

(***************************************************************************)
(* C16.  Concurrent add_documents calls on one instance are serialized:    *)
(* no call starts its additions while another call has added to the vector *)
(* backend and not yet to the keyword backend, so once no addition is in   *)
(* progress, and none has failed, both backends hold the batches in the    *)
(* same order.                                                             *)
(***************************************************************************)
C16_AdditionsSerialized ==
    /\ \A t, u \in Callers :
           t # u => ~(threads[t].pc = "add_bm25" /\ threads[u].pc = "add_bm25")
    /\ (/\ \A t \in Callers : threads[t].pc \notin {"add_vector", "add_bm25"}
        /\ NoAddFailed)
           => vectorstore = bm25_retriever

(***************************************************************************)
(* C17.  A retrieve call that runs while add_documents runs never sees a   *)
(* half-applied addition: the keyword backend it queries holds every       *)
(* document that the vector backend held when the same call queried it     *)
(* for the same variant, as long as no addition has failed.                *)
(***************************************************************************)
C17_ReadsSeeWholeAdditions ==
    \A t \in Callers :
        (threads[t].op = "retrieve" /\ threads[t].pc = "fuse" /\ NoAddFailed) =>
            \A d \in Range(threads[t].vector_seen) :
                Occurrences(threads[t].vector_seen, d)
                    <= Occurrences(threads[t].bm25_seen, d)

\* the variants' fused lists, one after the other: all_docs of a call that
\* runs on backends nobody changes
RECURSIVE GatherAlone(_, _, _, _, _, _)
GatherAlone(retriever, vs, bm, variants, n, all) ==
    IF n > Len(variants) THEN all
    ELSE GatherAlone(retriever, vs, bm, variants, n + 1,
             all \o _combine_results(retriever,
                        similarity_search_with_score(vs, variants[n], retriever.k),
                        get_relevant_documents(bm, variants[n])))

\* what _get_relevant_documents(q) gives when it runs from start to end with
\* no other call in between and no backend call raises
RetrieveAlone(retriever, vs, bm, q) ==
    IF ~retriever.advanced
    THEN [error |-> "none",
          result |-> Slice(_combine_results(retriever,
                               similarity_search_with_score(vs, q, retriever.k * 2),
                               get_relevant_documents(bm, q)),
                           retriever.k)]
    ELSE LET variants == IF retriever.query_expansion THEN _expand_query(q)
                                                     ELSE <<q>>
             u == _deduplicate_docs(GatherAlone(retriever, vs, bm, variants, 1, <<>>))
             r == IF retriever.rerank THEN _rerank_documents(u, q)
                                      ELSE [raised |-> FALSE, docs |-> u]
         IN  IF r.raised THEN [error |-> "ZeroDivisionError", result |-> <<>>]
             ELSE [error |-> "none", result |-> Slice(r.docs, retriever.k)]

\* a step of some caller's _get_relevant_documents call
RetrieveStep ==
    \E t \in Callers :
        /\ threads'[t] # threads[t]
        /\ threads[t].op = "retrieve" \/ threads'[t].op = "retrieve"

\* a finished call, during which no document was added, has the outcome of
\* the call run alone on the backends as they are
SameAsAlone ==
    \A t \in Callers :
        (/\ threads[t].op = "retrieve"
         /\ threads[t].pc = "done"
         /\ threads[t].error # "BackendUnavailable"
         /\ threads[t].started_on = <<vectorstore, bm25_retriever>>) =>
            LET alone == RetrieveAlone(self, vectorstore, bm25_retriever,
                                       threads[t].query)
            IN  /\ threads[t].result = alone.result
                /\ threads[t].error = alone.error

(***************************************************************************)
(* C18.  retrieve mutates nothing: no step of a retrieve call changes the  *)
(* instance (weights, k, flags) or what the backends hold; so a call that  *)
(* interleaves with other retrieve calls returns what it returns when run  *)
(* alone, and the same query on unchanged backends returns the same list.  *)
(***************************************************************************)
C18_RetrieveMutatesNothing ==
    /\ [][RetrieveStep => UNCHANGED <<self, vectorstore, bm25_retriever>>]_vars
    /\ []SameAsAlone

\* a five-variant call has returned documents while the other caller's call
\* of the same query is between its backend queries
C18_Witness ==
    \E t, u \in Callers :
        /\ t # u
        /\ AdvancedReturned(t)
        /\ threads[t].result # <<>>
        /\ Len(threads[t].expanded_queries) = 5
        /\ threads[u].op = "retrieve"
        /\ threads[u].query = threads[t].query
        /\ threads[u].pc = "keyword"
        /\ threads[u].qi = 3
        /\ threads[u].started_on = threads[t].started_on

(***************************************************************************)
(* C19.  In basic mode a backend call that raises ends retrieve with that  *)
(* exception: the failed call is the last backend call made, no call is    *)
(* made twice, the other backend's hits are not returned in its place, and *)
(* no list is returned.                                                    *)
(***************************************************************************)
C19_BasicFailurePropagates ==
    (ctor = "ok" /\ ~self.advanced /\ pc = "done") =>
        /\ ~fused.made =>
               /\ error = "BackendUnavailable"
               /\ result = <<>>
               /\ Len(calls) \in {1, 2}
               /\ calls[1].op = "similarity_search_with_score"
               /\ Len(calls) = 2 => calls[2].op = "get_relevant_documents"
        /\ fused.made => error = "none" /\ Len(calls) = 2

\* the keyword call raised after the vector call had returned hits
C19_Witness ==
    /\ ctor = "ok"
    /\ ~self.advanced
    /\ pc = "done"
    /\ error = "BackendUnavailable"
    /\ Len(calls) = 2
    /\ vector_docs # <<>>
    /\ result = <<>>

(***************************************************************************)
(* C20.  In advanced mode a backend call that fails for a variant other    *)
(* than the original query, after the original query's calls succeeded,    *)
(* does not fail the call: retrieve returns the deduplicated, reranked     *)
(* result of the variants that succeeded.                                  *)
(***************************************************************************)
C20_VariantFailureTolerated ==
    \A t \in Callers :
        (/\ ctor = "ok" /\ self.advanced
         /\ threads[t].op = "retrieve"
         /\ threads[t].pc = "done"
         /\ threads[t].qi > 1) =>
            threads[t].error # "BackendUnavailable"

(***************************************************************************)
(* C21.  An add_documents call that returned normally has passed its       *)
(* documents list exactly once to the vector backend's add_documents and   *)
(* then exactly once to the keyword backend's add_documents, and has       *)
(* invoked no other backend operation.                                     *)
(***************************************************************************)
C21_AddForwardsOnceToEach ==
    \A t \in Callers :
        (/\ threads[t].op = "add_documents"
         /\ threads[t].pc = "done"
         /\ threads[t].error = "none") =>
            /\ threads[t].documents = Batches[t]
            /\ threads[t].calls = <<VectorAdd(Batches[t]), KeywordAdd(Batches[t])>>

\* both callers' additions have returned, and both backends hold the two
\* batches after what they held before
C21_Witness ==
    /\ \A t \in Callers :
           /\ threads[t].op = "add_documents"
           /\ threads[t].pc = "done"
           /\ threads[t].error = "none"
    /\ Len(vectorstore) = 4
    /\ vectorstore = bm25_retriever

\* the backend queries a retrieve call of caller t makes when none fails
ExpectedCalls(t) ==
    LET v == threads[t].expanded_queries
    IN  IF ~self.advanced
        THEN <<VectorQuery(threads[t].query, 2 * self.k),
               KeywordQuery(threads[t].query)>>
        ELSE [i \in 1..(2 * Len(v)) |->
                 IF i % 2 = 1 THEN VectorQuery(v[(i + 1) \div 2], self.k)
                              ELSE KeywordQuery(v[i \div 2])]

(***************************************************************************)
(* C25.  Per retrieve call, basic mode makes one vector query for 2k       *)
(* candidates and one keyword query; advanced mode makes, for each variant *)
(* in variant order, one vector query for k candidates followed by one     *)
(* keyword query with that variant; at every moment the queries made are   *)
(* a prefix of that sequence, and deduplication and reranking happen only  *)
(* once the whole sequence has been made.                                  *)
(***************************************************************************)
C25_BackendQueriesPerCall ==
    \A t \in Callers :
        (ctor = "ok" /\ threads[t].op = "retrieve") =>
            LET me == threads[t]
                expected == ExpectedCalls(t)
            IN  /\ Len(me.calls) <= Len(expected)
                /\ me.calls = Slice(expected, Len(me.calls))
                /\ ~self.advanced => me.expanded_queries = <<me.query>>
                /\ (me.pc \in {"finish", "done"} /\ me.error = "none")
                       => me.calls = expected
                /\ (me.unique_docs # <<>> \/ me.result # <<>>)
                       => me.calls = expected

\* one caller's advanced call of a five-variant query has returned
\* documents after ten backend queries, while the other caller's call is
\* still between its queries
C25_Witness ==
    \E t, u \in Callers :
        /\ t # u
        /\ AdvancedReturned(t)
        /\ Len(threads[t].expanded_queries) = 5
        /\ Len(threads[t].calls) = 10
        /\ threads[t].unique_docs # <<>>
        /\ threads[u].op = "retrieve"
        /\ threads[u].pc = "keyword"

(***************************************************************************)
(* C26.  Fusion and deduplication never merge two chunks whose full        *)
(* contents differ: every distinct content among the candidates has its    *)
(* own entry in the fused list, and every distinct content of the gathered *)
(* list is still there after the advanced mode's deduplication, also for   *)
(* contents that share their first 100 characters.  Stated for a          *)
(* retriever with k >= 1.                                                  *)
(***************************************************************************)
C26_DifferentContentsKeptApart ==
    /\ (fused.made /\ self.k >= 1) =>
           /\ Range(ContentsOf(VectorDocs)) \cup Range(ContentsOf(bm25_docs))
                  = Range(ContentsOf(FusedDocs))
           /\ Len(fused.doc_scores) =
                  Cardinality(Range(ContentsOf(VectorDocs))
                                  \cup Range(ContentsOf(bm25_docs)))
    /\ (ctor = "ok" /\ self.advanced /\ pc \in {"finish", "done"}) =>
           Range(ContentsOf(_deduplicate_docs(all_docs)))
               = Range(ContentsOf(all_docs))

(***************************************************************************)
(* C27.  When a backend's result list holds one identity more than once,   *)
(* _combine_results scores it by its best occurrence in that backend: the  *)
(* vector_score is that of the smallest distance, the keyword score that   *)
(* of the earliest rank.  Stated for a retriever with k >= 1.              *)
(***************************************************************************)
C27_BestOccurrenceScores ==
    (fused.made /\ self.k >= 1) =>
        \A i \in DOMAIN fused.doc_scores :
            LET e == fused.doc_scores[i]
                vat == {p \in DOMAIN vector_docs :
                           _get_doc_id(vector_docs[p].doc) = e.doc_id}
                kat == {p \in DOMAIN bm25_docs :
                           _get_doc_id(bm25_docs[p]) = e.doc_id}
            IN  /\ vat # {} =>
                       \A p \in vat :
                           ~RLess(e.vector_score, Similarity(vector_docs[p].score))
                /\ kat # {} =>
                       \A p \in kat : ~RLess(e.bm25_score, Rat(1, (p - 1) + 1))

(***************************************************************************)
(* C28.  add_documents is all-or-nothing across the two backends: a call   *)
(* whose keyword addition failed after its vector addition succeeded ends  *)
(* with the failure reported and the vector backend not holding the        *)
(* documents, so that whenever no addition is in progress the two backends *)
(* hold the same documents.                                                *)
(***************************************************************************)
C28_AddAllOrNothing ==
    /\ \A t \in Callers :
           (/\ threads[t].op = "add_documents"
            /\ threads[t].pc = "done"
            /\ Len(threads[t].calls) < 2) => threads[t].error # "none"
    /\ (\A t \in Callers : threads[t].pc \notin {"add_vector", "add_bm25"})
           => IsPermutation(vectorstore, bm25_retriever)

(***************************************************************************)
(* get_embeddings of app/rag/vectorstore.py, called from several threads.  *)
(* The interpreter may switch threads between the test of line 14, the     *)
(* call of make_embeddings, the store into the global (both line 15) and   *)
(* the read of the global that line 16 returns.                            *)
(***************************************************************************)
\* how many calls a thread makes
MaxGets == 2

\* what a step outside the retriever leaves alone
LibraryUnchanged ==
    /\ UNCHANGED <<ctor, args, self>>
    /\ UNCHANGED callVars
    /\ UNCHANGED pure
    /\ UNCHANGED sharedVars

\* line 14, at the start of a call: if _embeddings is None
TestGlobal(t) ==
    /\ getters[t].pc = "idle"
    /\ Len(getters[t].returned) + getters[t].raised < MaxGets
    /\ getters' = [getters EXCEPT
           ![t].pc = IF _embeddings = None THEN "make" ELSE "return"]
    /\ UNCHANGED <<_embeddings, instances, stream, download>>
    /\ LibraryUnchanged

\* line 15, right-hand side: make_embeddings() returns a new instance
MakeEmbeddings(t) ==
    /\ getters[t].pc = "make"
    /\ instances' = instances + 1
    /\ getters' = [getters EXCEPT ![t].made = [instance |-> instances + 1],
                                  ![t].pc = "assign"]
    /\ UNCHANGED <<_embeddings, stream, download>>
    /\ LibraryUnchanged

\* line 15, right-hand side: make_embeddings() raises (no API key); the
\* exception leaves get_embeddings and the global stays None
MakeEmbeddingsRaises(t) ==
    /\ getters[t].pc = "make"
    /\ getters' = [getters EXCEPT ![t].raised = @ + 1, ![t].pc = "idle"]
    /\ UNCHANGED <<_embeddings, instances, stream, download>>
    /\ LibraryUnchanged

\* line 15, the assignment to the global
AssignGlobal(t) ==
    /\ getters[t].pc = "assign"
    /\ _embeddings' = getters[t].made
    /\ getters' = [getters EXCEPT ![t].pc = "return"]
    /\ UNCHANGED <<instances, stream, download>>
    /\ LibraryUnchanged

\* line 16: return _embeddings
ReturnGlobal(t) ==
    /\ getters[t].pc = "return"
    /\ getters' = [getters EXCEPT ![t].returned = Append(@, _embeddings),
                                  ![t].made = None,
                                  ![t].pc = "idle"]
    /\ UNCHANGED <<_embeddings, instances, stream, download>>
    /\ LibraryUnchanged

NextEmbeddings ==
    \/ \E t \in Threads : TestGlobal(t)
    \/ \E t \in Threads : MakeEmbeddings(t)
    \/ \E t \in Threads : MakeEmbeddingsRaises(t)
    \/ \E t \in Threads : AssignGlobal(t)
    \/ \E t \in Threads : ReturnGlobal(t)

SpecEmbeddings == Init /\ [][NextEmbeddings]_vars

(***************************************************************************)
(* C24.  get_embeddings is a singleton accessor: over any sequence of      *)
(* calls, first calls made concurrently included, make_embeddings returns  *)
(* an instance at most once and every caller receives the same instance.   *)
(***************************************************************************)
C24_EmbeddingsSingleton ==
    /\ instances <= 1
    /\ \A t, u \in Threads :
           \A i \in DOMAIN getters[t].returned, j \in DOMAIN getters[u].returned :
               getters[t].returned[i] = getters[u].returned[j]

(***************************************************************************)
(* The streaming responses of app/api/routes_chat.py: the generator        *)
(* event_stream of chat_endpoint (lines 50-123, endpoint "chat") and of    *)
(* chat_stream_endpoint (lines 139-160, endpoint "chat_stream").  A step   *)
(* runs the generator to its next yield, or to a call of the LLM, the      *)
(* agent or the memory, each of which may return or raise.  The response   *)
(* is read to its done event, after which the generator is resumed or      *)
(* closed.  pc names the line the generator is at.                         *)
(***************************************************************************)
\* how many chunks the LLM streams at most
MaxChunks == 2

\* how many characters the agent's cleaned output has at most
MaxOutput == 2

\* the generator emits one more event
Emit(kind) == Append(stream.events, kind)

\* what a step of the generator leaves alone
StreamFrame ==
    /\ UNCHANGED <<_embeddings, instances, getters, download>>
    /\ LibraryUnchanged

\* A request arrives: POST /chat with stream enabled (lines 48-50, 125), or
\* POST /chat_stream (lines 139, 162).  needs_tools is the keyword test of
\* lines 57-58 on the request's input.
Request(endpoint, needs_tools) ==
    /\ stream.pc = "idle"
    /\ stream' = [IdleStream EXCEPT
           !.endpoint = endpoint,
           !.needs_tools = needs_tools,
           !.pc = IF endpoint = "chat" THEN "54" ELSE "141"]
    /\ StreamFrame

\* the yields of lines 54, 62 and 88: a delta with a fixed prompt
YieldPrompt ==
    /\ stream.endpoint = "chat"
    /\ stream.pc \in {"54", "62", "88"}
    /\ stream' = [stream EXCEPT
           !.events = Emit("delta"),
           !.pc = IF stream.pc = "54"
                  THEN (IF stream.needs_tools THEN "62" ELSE "88")
                  ELSE (IF stream.pc = "62" THEN "65" ELSE "91")]
    /\ StreamFrame

\* lines 65-67: agent.invoke returns; full_text is its output.  The agent
\* holds the memory of the endpoints (agents/agent.py line 63, main.py lines
\* 34-40), so before it returns it has itself called memory.save_context
\* with its output.
AgentInvoke ==
    /\ stream.pc = "65"
    /\ stream' = [stream EXCEPT
           !.full_text = <<"output">>,
           !.saves = @ + 1,
           !.saved_at = Len(stream.events),
           !.saved = <<"output">>,
           !.pc = "70"]
    /\ StreamFrame

\* the yields of lines 70 and 95: the clear signal
YieldClear ==
    /\ stream.pc \in {"70", "95"}
    /\ stream' = [stream EXCEPT
           !.events = Emit("clear"),
           !.pc = IF stream.pc = "70" THEN "76" ELSE "98"]
    /\ StreamFrame

\* lines 73-79: the output is cleaned; n characters are left to stream
CleanOutput(n) ==
    /\ stream.pc = "76"
    /\ stream' = [stream EXCEPT
           !.left = n,
           !.pc = IF n > 0 THEN "84" ELSE "finally"]
    /\ StreamFrame

\* lines 83-85: one character of the cleaned output
YieldChar ==
    /\ stream.pc = "84"
    /\ stream' = [stream EXCEPT
           !.events = Emit("delta"),
           !.left = @ - 1,
           !.pc = IF stream.left > 1 THEN "84" ELSE "finally"]
    /\ StreamFrame

\* agent.invoke raises (line 65), or its output is not text and re.sub
\* raises (line 76): control goes to the except clause of line 113.
\* attempted says that what raised in agent.invoke is the agent's own call
\* of memory.save_context.
AgentRaises(attempted) ==
    /\ stream.pc \in {"65", "76"}
    /\ attempted => stream.pc = "65"
    /\ stream' = [stream EXCEPT
           !.saves = IF attempted THEN @ + 1 ELSE @,
           !.saved_at = IF attempted THEN Len(stream.events) ELSE @,
           !.pc = "except"]
    /\ StreamFrame

\* memory.load_memory_variables returns: lines 91-92, and lines 141-142
LoadMemory ==
    /\ stream.pc \in {"91", "141"}
    /\ stream' = [stream EXCEPT !.pc = IF stream.pc = "91" THEN "95" ELSE "146"]
    /\ StreamFrame

\* memory.load_memory_variables raises.  Line 91 is inside the try of line
\* 52; line 141 is before the try of line 145, so there the exception
\* leaves the generator.
LoadMemoryRaises ==
    /\ stream.pc \in {"91", "141"}
    /\ stream' = IF stream.pc = "91"
                 THEN [stream EXCEPT !.pc = "except"]
                 ELSE [stream EXCEPT !.pc = "closed", !.raised = TRUE]
    /\ StreamFrame

\* llm.stream gives a chunk: one without content, one that is only a
\* prompt marker, or text.  Lines 98-111 clean the chunk and skip it if
\* nothing is left; lines 146-151 skip only a chunk without content.
LlmChunk(chunk) ==
    /\ stream.pc \in {"98", "146"}
    /\ stream.chunks < MaxChunks
    /\ LET skipped == \/ chunk = "empty"
                      \/ chunk = "marker" /\ stream.pc = "98"
       IN  stream' = [stream EXCEPT
               !.chunks = @ + 1,
               !.full_text = IF skipped THEN @ ELSE Append(@, chunk),
               !.events = IF skipped THEN @ ELSE Emit("delta")]
    /\ StreamFrame

\* llm.stream is exhausted: the try block ends
LlmEnds ==
    /\ stream.pc \in {"98", "146"}
    /\ stream' = [stream EXCEPT !.pc = "finally"]
    /\ StreamFrame

\* llm.stream raises: to the except clause of line 113, or, with no except
\* clause (lines 145-152), through the finally clause and out
LlmRaises ==
    /\ stream.pc \in {"98", "146"}
    /\ stream' = IF stream.pc = "98"
                 THEN [stream EXCEPT !.pc = "except"]
                 ELSE [stream EXCEPT !.pc = "finally", !.pending = TRUE]
    /\ StreamFrame

\* lines 113-116: the error message replaces full_text and is sent
YieldError ==
    /\ stream.pc = "except"
    /\ stream' = [stream EXCEPT
           !.full_text = <<"error">>,
           !.events = Emit("delta"),
           !.pc = "finally"]
    /\ StreamFrame

\* lines 119-120 and 154-155: memory.save_context returns
SaveContext ==
    /\ stream.pc = "finally"
    /\ stream' = [stream EXCEPT
           !.saves = @ + 1,
           !.saved_at = Len(stream.events),
           !.saved = stream.full_text,
           !.pc = "done"]
    /\ StreamFrame

\* memory.save_context raises: the warn event of lines 121-122, 156-158
SaveContextRaises ==
    /\ stream.pc = "finally"
    /\ stream' = [stream EXCEPT
           !.saves = @ + 1,
           !.saved_at = Len(stream.events),
           !.events = Emit("warn"),
           !.pc = "done"]
    /\ StreamFrame

\* lines 123 and 160: the done event; the generator is suspended at the
\* yield, inside the finally clause
YieldDone ==
    /\ stream.pc = "done"
    /\ stream' = [stream EXCEPT
           !.events = Emit("done"),
           !.pc = "yielded_done"]
    /\ StreamFrame

\* the response asks for the next event after done: the generator ends,
\* with the exception that was on its way through the finally clause, if
\* any
ResumeAfterDone ==
    /\ stream.pc = "yielded_done"
    /\ stream' = [stream EXCEPT
           !.raised = stream.pending,
           !.pc = "closed"]
    /\ StreamFrame

\* the consumer closes the generator after done instead: GeneratorExit at
\* the yield ends it, and the exception on its way is dropped
CloseAfterDone ==
    /\ stream.pc = "yielded_done"
    /\ stream' = [stream EXCEPT !.pc = "closed"]
    /\ StreamFrame

NextStream ==
    \/ \E needs_tools \in BOOLEAN : Request("chat", needs_tools)
    \/ Request("chat_stream", FALSE)
    \/ YieldPrompt
    \/ AgentInvoke
    \/ YieldClear
    \/ \E n \in 0..MaxOutput : CleanOutput(n)
    \/ YieldChar
    \/ \E attempted \in BOOLEAN : AgentRaises(attempted)
    \/ LoadMemory
    \/ LoadMemoryRaises
    \/ \E chunk \in {"empty", "marker", "text"} : LlmChunk(chunk)
    \/ LlmEnds
    \/ LlmRaises
    \/ YieldError
    \/ SaveContext
    \/ SaveContextRaises
    \/ YieldDone
    \/ ResumeAfterDone
    \/ CloseAfterDone

SpecStream == Init /\ [][NextStream]_vars

(***************************************************************************)
(* C29.  Every streaming response follows one protocol whatever the LLM,   *)
(* the agent or the memory does: when the stream has ended,                *)
(* memory.save_context has been attempted exactly once, after the last     *)
(* delta event, and a done event has been emitted exactly once, as the     *)
(* last event of the stream.                                               *)
(***************************************************************************)
C29_StreamProtocol ==
    /\ stream.saves <= 1
    /\ stream.pc \in {"yielded_done", "closed"} =>
           /\ stream.saves = 1
           /\ \A i \in DOMAIN stream.events :
                  stream.events[i] = "delta" => i <= stream.saved_at
           /\ stream.events # <<>>
           /\ \A i \in DOMAIN stream.events :
                  stream.events[i] = "done" <=> i = Len(stream.events)

(***************************************************************************)
(* auto_download_report of app/utils/auto_download.py.  download.stack     *)
(* holds the frames of the call and of the call it makes of itself; a step *)
(* runs the innermost frame to its next operation on the database, the     *)
(* file system or the exporter, each of which returns or raises.  An       *)
(* awaited operation is taken to return or raise.                          *)
(***************************************************************************)
\* the values of the format argument: the four supported ones and another
Formats == {"json", "markdown", "pdf", "docx", "xml"}

\* the innermost frame
Top == download.stack[Len(download.stack)]

\* the innermost frame moves to pc
Goto(pc_) ==
    [download EXCEPT !.stack[Len(download.stack)].pc = pc_]

\* The innermost frame returns v.  The outermost frame's value is the
\* call's result; an inner frame's value goes to the frame that awaits it.
Finish(v, failure) ==
    IF Len(download.stack) = 1
    THEN [download EXCEPT !.stack = <<>>, !.result = v, !.done = TRUE,
                          !.failure = failure]
    ELSE [download EXCEPT
             !.stack = [i \in 1..(Len(download.stack) - 1) |->
                           IF i = Len(download.stack) - 1
                           THEN [download.stack[i] EXCEPT !.pc = "return",
                                                          !.value = v]
                           ELSE download.stack[i]],
             !.failure = failure]

\* Failed with the exception leaving auto_download_report
FailedPropagates(failure) ==
    [download EXCEPT !.stack = <<>>, !.raised = TRUE, !.done = TRUE,
                     !.failure = failure]

\* lines 339-341: the outer except clause logs the exception and returns
\* None
Failed(failure) == Finish(None, failure)

\* a new frame of auto_download_report
Frame(format) == [format |-> format, pc |-> "find", value |-> None]

\* lines 301-303 and 331-333: the call of auto_download_report with format
\* "markdown", awaited by the frame that makes it
Degrade(reason) ==
    [download EXCEPT
        !.degraded_by = reason,
        !.stack = Append([download.stack EXCEPT ![Len(download.stack)].pc = "await"],
                         Frame("markdown")),
        !.recursive_calls = @ + 1]

DownloadFrame ==
    /\ UNCHANGED <<_embeddings, instances, getters, stream>>
    /\ LibraryUnchanged

\* auto_download_report(report_id, stock_symbol, analysis_date, format, ...)
Call_auto_download_report(format, enable_summary) ==
    /\ download = IdleDownload
    /\ download' = [IdleDownload EXCEPT
           !.stack = <<Frame(format)>>, !.format = format,
           !.enable_summary = enable_summary]
    /\ DownloadFrame

\* lines 144-163: get_mongo_db and find_one; the report is found, or is not
\* found, or the database raises
FindReport(outcome) ==
    /\ download.stack # <<>>
    /\ Top.pc = "find"
    /\ download' = CASE outcome = "found" -> Goto("mkdir")
                     [] outcome = "missing" -> Finish(None, "not_found")
                     [] OTHER -> Failed("database_error")
    /\ DownloadFrame

\* lines 166-183: the directory is made, or mkdir raises; then the branch
\* on format of lines 185, 197, 293 and 335
MakeDirectory(ok) ==
    /\ download.stack # <<>>
    /\ Top.pc = "mkdir"
    /\ download' =
           IF ~ok THEN Failed("io_error")
           ELSE CASE Top.format = "json" -> Goto("write_json")
                  [] Top.format = "markdown" -> Goto("build_markdown")
                  [] Top.format \in {"pdf", "docx"} -> Goto("export")
                  [] OTHER -> Finish(None, "unsupported_format")
    /\ DownloadFrame

\* lines 187-195: the JSON file is written, or writing raises
WriteJson(ok) ==
    /\ download.stack # <<>>
    /\ Top.pc = "write_json"
    /\ download' = IF ok THEN Finish([path |-> "json"], "none")
                         ELSE Failed("io_error")
    /\ DownloadFrame

\* lines 199-261: the parts of the Markdown text are built from the
\* document and joined, or a step of it raises (a field of the document
\* that cannot be joined or formatted); then the test of enable_summary
BuildMarkdown(ok) ==
    /\ download.stack # <<>>
    /\ Top.pc = "build_markdown"
    /\ download' = IF ~ok THEN Failed("io_error")
                   ELSE Goto(IF download.enable_summary THEN "summary"
                                                         ELSE "write_markdown")
    /\ DownloadFrame

\* lines 257-259: summarize_report_with_llm is called on the built text and
\* returns a summary or None; it catches its own exceptions
Summarize ==
    /\ download.stack # <<>>
    /\ Top.pc = "summary"
    /\ download' = [Goto("write_markdown") EXCEPT !.summaries = @ + 1]
    /\ DownloadFrame

\* lines 263-291: the summary, if any, is inserted and the file is written,
\* or writing raises
WriteMarkdown(ok) ==
    /\ download.stack # <<>>
    /\ Top.pc = "write_markdown"
    /\ download' = IF ok THEN Finish([path |-> "md"], "none")
                         ELSE Failed("io_error")
    /\ DownloadFrame

\* lines 295-333: the exporter cannot be imported, or pandoc is not
\* available, or generating or writing the file raises: the call degrades
\* to the markdown format; or the file is written
Export(outcome) ==
    /\ download.stack # <<>>
    /\ Top.pc = "export"
    /\ download' = IF outcome = "ok" THEN Finish([path |-> Top.format], "none")
                                     ELSE Degrade(outcome)
    /\ DownloadFrame

\* the return of lines 301 and 331: what the awaited call returned
ReturnAwaited ==
    /\ download.stack # <<>>
    /\ Top.pc = "return"
    /\ download' = Finish(Top.value, download.failure)
    /\ DownloadFrame

NextDownload ==
    \/ \E format \in Formats, enable_summary \in BOOLEAN :
           Call_auto_download_report(format, enable_summary)
    \/ \E outcome \in {"found", "missing", "raises"} : FindReport(outcome)
    \/ \E ok \in BOOLEAN : MakeDirectory(ok)
    \/ \E ok \in BOOLEAN : WriteJson(ok)
    \/ \E ok \in BOOLEAN : BuildMarkdown(ok)
    \/ Summarize
    \/ \E ok \in BOOLEAN : WriteMarkdown(ok)
    \/ \E outcome \in {"ok", "no_exporter", "no_pandoc", "raises"} :
           Export(outcome)
    \/ ReturnAwaited

\* a call that has started goes on until it returns
SpecDownload == Init /\ [][NextDownload]_vars /\ WF_vars(NextDownload)

\* what holds at every moment of a call
DownloadSafe ==
    /\ ~download.raised
    /\ download.recursive_calls <= 1
    /\ Len(download.stack) <= 2
    /\ download.recursive_calls = 1 <=> download.degraded_by # "none"
    /\ download.summaries <= 1
    /\ download.summaries = 1 => download.enable_summary
    /\ download.recursive_calls = 1 => download.format \in {"pdf", "docx"}
    /\ Len(download.stack) = 2 =>
           /\ download.stack[1].pc = "await"
           /\ download.stack[2].format = "markdown"
    /\ download.done =>
           /\ download.stack = <<>>
           /\ download.result = None <=> download.failure # "none"
           /\ download.result # None =>
                  download.result =
                      [path |-> IF download.recursive_calls = 1 THEN "md"
                                ELSE IF download.format = "markdown" THEN "md"
                                ELSE download.format]

(***************************************************************************)
(* C30.  auto_download_report always terminates without raising: for      *)
(* format pdf or docx, when pandoc is unavailable or the export raises, it *)
(* degrades to the markdown path through at most one call of itself, and   *)
(* when the report is not found, the format is unsupported or a database,  *)
(* file or (degraded) write operation fails, it returns None; every call   *)
(* ends with None or a path.                                               *)
(***************************************************************************)
C30_DownloadTerminates ==
    /\ []DownloadSafe
    /\ <>(download.done)

\* a pdf download whose export raised has returned the path of the
\* Markdown file written by the one call it made of itself
C30_Witness ==
    /\ download.done
    /\ download.format = "pdf"
    /\ download.recursive_calls = 1
    /\ download.result = [path |-> "md"]

(***************************************************************************)
(* Two functions that keep nothing between calls, each called once:        *)
(* compare_retrieval_methods of app/rag/hybrid_chain.py, on the stand-in   *)
(* backends of the concurrent callers, and summarize_report_with_llm of    *)
(* app/utils/auto_download.py, on what the configuration and the LLM give. *)
(***************************************************************************)
\* k of every retriever compare_retrieval_methods builds (lines 88-128)
CompareK == 5

\* how much of a document a result entry shows (line 135)
SnippetLen == 200

\* doc.page_content[:200] + "..." for every document of a ranking
Snippets(docs) ==
    [i \in DOMAIN docs |->
        Slice(docs[i].page_content, SnippetLen) \o <<".", ".", ".">>]

\* what the vector store holds, and the documents given to the function
CompareStores ==
    InitialStores \cup { <<DocAB>>, <<DocGuPiao, DocA>> }

\* lines 88-89: the vector store's own retriever with k = 5
VectorOnly(vs, q) ==
    LET hits == similarity_search_with_score(vs, q, CompareK)
    IN  [i \in DOMAIN hits |-> hits[i].doc]

\* lines 92-130: the retrievers built by create_hybrid_retriever and their
\* names in the returned mapping (lines 137-152)
CompareConfigurations ==
    << [name |-> "hybrid_balanced", vector_weight |-> Rat(1, 2),
        bm25_weight |-> Rat(1, 2), advanced |-> FALSE],
       [name |-> "hybrid_vector_heavy", vector_weight |-> Rat(4, 5),
        bm25_weight |-> Rat(1, 5), advanced |-> FALSE],
       [name |-> "hybrid_keyword_heavy", vector_weight |-> Rat(1, 5),
        bm25_weight |-> Rat(4, 5), advanced |-> FALSE],
       [name |-> "hybrid_advanced", vector_weight |-> Rat(7, 10),
        bm25_weight |-> Rat(3, 10), advanced |-> TRUE] >>

\* compare_retrieval_methods(query, documents), with vs what the vector
\* store holds: the method entries of the returned mapping in the order of
\* lines 132-153 (its "query" entry is the query), or raised when a
\* retrieval raises
compare_retrieval_methods(vs, documents, q) ==
    LET Retrieved(c) ==
            RetrieveAlone(NewRetriever(NormalizeWeights(c.vector_weight,
                                                        c.bm25_weight),
                                       CompareK, c.advanced),
                          vs, documents, q)
        Entry(name, docs) ==
            [name |-> name, docs |-> Snippets(docs), count |-> Len(docs)]
    IN  IF \E i \in DOMAIN CompareConfigurations :
               Retrieved(CompareConfigurations[i]).error # "none"
        THEN [raised |-> TRUE, ret |-> <<>>]
        ELSE [raised |-> FALSE,
              ret |-> <<Entry("vector_only", VectorOnly(vs, q))>> \o
                      [i \in DOMAIN CompareConfigurations |->
                          Entry(CompareConfigurations[i].name,
                                Retrieved(CompareConfigurations[i]).result)]]

\* A call of compare_retrieval_methods.  Line 85 is get_vectorstore(),
\* whose get_embeddings() (vectorstore.py lines 11-16, 23) makes the
\* embeddings when the global holds none; make_embeddings raises
\* RuntimeError when no API key is configured (providers/embeddings.py line
\* 17), and then so does the call, before anything is retrieved.
Call_compare_retrieval_methods(vs, documents, q, api_key) ==
    /\ pure.op = "none"
    /\ LET made == _embeddings = None /\ api_key
           fails == _embeddings = None /\ ~api_key
           r == IF fails THEN [raised |-> TRUE, ret |-> <<>>]
                ELSE compare_retrieval_methods(vs, documents, q)
       IN  /\ pure' = [op |-> "compare_retrieval_methods", query |-> q,
                       docs |-> documents,
                       input |-> [vectorstore |-> vs, api_key |-> api_key],
                       raised |-> r.raised, ret |-> r.ret]
           /\ instances' = IF made THEN instances + 1 ELSE instances
           /\ _embeddings' = IF made THEN [instance |-> instances + 1]
                             ELSE _embeddings
    /\ UNCHANGED <<getters, stream, download>>
    /\ UNCHANGED <<ctor, args, self>>
    /\ UNCHANGED callVars
    /\ UNCHANGED sharedVars

\* the longest summary the function means to return (line 102)
SummaryLimit == 500

\* str.strip() of a text of blanks and other characters
Strip(s) ==
    LET at == {i \in DOMAIN s : s[i] # " "}
    IN  IF at = {} THEN <<>>
        ELSE SubSeq(s, CHOOSE i \in at : \A j \in at : i <= j,
                       CHOOSE i \in at : \A j \in at : j <= i)

\* What the configuration gives (lines 32-52): no LLM configuration, no
\* model, no provider for the model, or a usable model.
Configurations == {"no_config", "no_model", "no_provider", "ok"}

\* text of n characters between lead and trail blanks
Text(lead, n, trail) ==
    Repeat(" ", lead) \o Repeat("x", n) \o Repeat(" ", trail)

\* What llm.invoke gives (line 96): it raises, or returns None, a response
\* without content, or a response whose content has up to 502 characters
\* besides blanks at its ends.
LlmOutcomes ==
    { [kind |-> "raises", content |-> <<>>],
      [kind |-> "none", content |-> <<>>],
      [kind |-> "no_content", content |-> <<>>] }
    \cup { [kind |-> "content", content |-> Text(lead, n, trail)] :
              lead \in 0..1, trail \in 0..1,
              n \in {0, 1, 2} \cup
                    ((SummaryLimit - 2)..(SummaryLimit + 2)) }

\* summarize_report_with_llm: None (lines 37, 46, 52, 111 and 115), or the
\* returned summary as [summary |-> text] (lines 98-108)
summarize_report_with_llm(config, llm) ==
    IF config # "ok" THEN None
    ELSE IF llm.kind = "raises" THEN None
    ELSE IF llm.kind # "content" \/ llm.content = <<>> THEN None
    ELSE LET summary == Strip(llm.content)
         IN  [summary |->
                 IF Len(summary) > SummaryLimit
                 THEN Slice(summary, SummaryLimit) \o <<".", ".", ".">>
                 ELSE summary]

Call_summarize_report_with_llm(config, llm) ==
    /\ pure.op = "none"
    /\ pure' = [op |-> "summarize_report_with_llm", query |-> <<>>,
                docs |-> <<>>, input |-> [config |-> config, llm |-> llm],
                raised |-> FALSE,
                ret |-> summarize_report_with_llm(config, llm)]
    /\ UNCHANGED appVars
    /\ UNCHANGED <<ctor, args, self>>
    /\ UNCHANGED callVars
    /\ UNCHANGED sharedVars

NextTools ==
    \/ \E vs \in CompareStores, documents \in CompareStores \ {<<>>},
          q \in SharedQueries :
           \E api_key \in BOOLEAN :
               Call_compare_retrieval_methods(vs, documents, q, api_key)
    \/ \E config \in Configurations, llm \in LlmOutcomes :
           Call_summarize_report_with_llm(config, llm)

SpecTools == Init /\ [][NextTools]_vars

(***************************************************************************)
(* C22.  compare_retrieval_methods returns, for one query, a result entry  *)
(* for a pure-vector baseline, a pure-keyword baseline and each fixed      *)
(* weight configuration, and in every entry the count is the number of     *)
(* ranked snippets listed for that method.                                 *)
(***************************************************************************)
C22_CompareEntries ==
    (pure.op = "compare_retrieval_methods" /\ ~pure.raised) =>
        LET entries == pure.ret
            vs == pure.input.vectorstore
            Named(name) == {i \in DOMAIN entries : entries[i].name = name}
            weighted == {CompareConfigurations[i].name :
                            i \in DOMAIN CompareConfigurations}
        IN  /\ \E i \in Named("vector_only") :
                   entries[i].docs = Snippets(VectorOnly(vs, pure.query))
            /\ \E i \in DOMAIN entries :
                   /\ entries[i].name \notin weighted \cup {"vector_only"}
                   /\ entries[i].docs =
                          Snippets(Slice(get_relevant_documents(pure.docs,
                                                                pure.query),
                                         CompareK))
            /\ \A name \in weighted : Cardinality(Named(name)) = 1
            /\ \A i \in DOMAIN entries :
                   entries[i].count = Len(entries[i].docs)

(***************************************************************************)
(* C23.  summarize_report_with_llm returns either None or a summary of at  *)
(* most 500 characters, for every length of the LLM's response.            *)
(***************************************************************************)
C23_SummaryAtMost500 ==
    pure.op = "summarize_report_with_llm" =>
        \/ pure.ret = None
        \/ Len(pure.ret.summary) <= 500

====
